---- MODULE Spec2Model ----
(***************************************************************************)
(* A model of aptify's repository assembly pipeline (buildRepository and   *)
(* the functions it calls).  Text values that the program slices or        *)
(* compares character by character (package names, versions, Source        *)
(* fields, pool paths) are sequences of one-character strings; file paths  *)
(* under dists/ are sequences of path segments.                            *)
(***************************************************************************)
EXTENDS Integers, Sequences, FiniteSets, TLC

(***************************************************************************)
(* Text helpers (Go's strings package, as used by the program).            *)
(***************************************************************************)

\* The characters that occur in the modelled inputs, in byte order.
Alphabet ==
    << " ", "(", ")", "-", ".", "/", "0", "1", "2", "3", "4", "5", "6", "7",
       "8", "9", ":", "_", "a", "b", "c", "d", "e", "f", "g", "h", "i", "j",
       "k", "l", "m", "n", "o", "p", "q", "r", "s", "t", "u", "v", "w", "x",
       "y", "z", "~" >>

\* The position of each character in that order.
CharCodes ==
    [c \in {Alphabet[i] : i \in 1..Len(Alphabet)} |->
        CHOOSE i \in 1..Len(Alphabet) : Alphabet[i] = c]

CharCode(c) == CharCodes[c]

Digits == {"0", "1", "2", "3", "4", "5", "6", "7", "8", "9"}

IsDigit(c) == c \in Digits

IsAlpha(c) == CharCode(c) >= CharCode("a") /\ CharCode(c) <= CharCode("z")

DigitValue(c) == CharCode(c) - CharCode("0")

\* strings.Compare: byte-wise lexicographic order, -1 / 0 / +1.
RECURSIVE stringsCompare(_, _)
stringsCompare(a, b) ==
    IF a = <<>> /\ b = <<>> THEN 0
    ELSE IF a = <<>> THEN -1
    ELSE IF b = <<>> THEN 1
    ELSE IF Head(a) = Head(b) THEN stringsCompare(Tail(a), Tail(b))
    ELSE IF CharCode(Head(a)) < CharCode(Head(b)) THEN -1
    ELSE 1

\* strings.Index(s, c) for a one-character needle: 0-based, -1 when absent.
IndexOfChar(s, c) ==
    IF \E i \in 1..Len(s) : s[i] = c
    THEN (CHOOSE i \in 1..Len(s) : s[i] = c /\ \A j \in 1..(i - 1) : s[j] # c) - 1
    ELSE -1

\* strings.LastIndex(s, c) for a one-character needle.
LastIndexOfChar(s, c) ==
    IF \E i \in 1..Len(s) : s[i] = c
    THEN (CHOOSE i \in 1..Len(s) : s[i] = c /\ \A j \in (i + 1)..Len(s) : s[j] # c) - 1
    ELSE -1

\* strings.HasPrefix.
HasPrefix(s, p) == Len(s) >= Len(p) /\ SubSeq(s, 1, Len(p)) = p

\* strings.TrimSpace (the inputs hold no white space but the blank).
RECURSIVE TrimLeft(_)
TrimLeft(s) == IF s # <<>> /\ Head(s) = " " THEN TrimLeft(Tail(s)) ELSE s

RECURSIVE TrimRight(_)
TrimRight(s) ==
    IF s # <<>> /\ s[Len(s)] = " " THEN TrimRight(SubSeq(s, 1, Len(s) - 1)) ELSE s

TrimSpace(s) == TrimRight(TrimLeft(s))

(***************************************************************************)
(* Debian version order (deb822's version.Compare, called through          *)
(* types.Package.Compare by the sort in buildRepository).                  *)
(***************************************************************************)

\* The decimal value of a run of digits.
RECURSIVE DecimalValue(_)
DecimalValue(s) ==
    IF s = <<>> THEN 0
    ELSE DecimalValue(SubSeq(s, 1, Len(s) - 1)) * 10 + DigitValue(s[Len(s)])

\* [epoch:]upstream[-revision]: the epoch ends at the first colon, the
\* revision starts after the last hyphen.
VersionEpoch(v) ==
    LET colon == IndexOfChar(v, ":")
    IN  IF colon >= 0 THEN DecimalValue(SubSeq(v, 1, colon)) ELSE 0

VersionRest(v) ==
    LET colon == IndexOfChar(v, ":")
    IN  IF colon >= 0 THEN SubSeq(v, colon + 2, Len(v)) ELSE v

VersionUpstream(v) ==
    LET rest == VersionRest(v)
        hyphen == LastIndexOfChar(rest, "-")
    IN  IF hyphen >= 0 THEN SubSeq(rest, 1, hyphen) ELSE rest

VersionRevision(v) ==
    LET rest == VersionRest(v)
        hyphen == LastIndexOfChar(rest, "-")
    IN  IF hyphen >= 0 THEN SubSeq(rest, hyphen + 2, Len(rest)) ELSE <<>>

\* The weight of one character in the non-digit part of the comparison:
\* the tilde sorts before everything, even the end of the string; letters
\* sort before the other characters.
CharOrder(s) ==
    IF s = <<>> THEN 0
    ELSE IF IsDigit(Head(s)) THEN 0
    ELSE IF IsAlpha(Head(s)) THEN CharCode(Head(s))
    ELSE IF Head(s) = "~" THEN -1
    ELSE CharCode(Head(s)) + 256

RECURSIVE SkipZeros(_)
SkipZeros(s) == IF s # <<>> /\ Head(s) = "0" THEN SkipZeros(Tail(s)) ELSE s

RECURSIVE DigitRun(_)
DigitRun(s) == IF s # <<>> /\ IsDigit(Head(s)) THEN <<Head(s)>> \o DigitRun(Tail(s)) ELSE <<>>

Sign(n) == IF n < 0 THEN -1 ELSE IF n > 0 THEN 1 ELSE 0

\* One part (upstream or revision) against another: alternately a run of
\* non-digits, compared by CharOrder, and a run of digits, compared by value.
RECURSIVE CompareVersionPart(_, _)
CompareVersionPart(a, b) ==
    IF a = <<>> /\ b = <<>> THEN 0
    ELSE IF (a # <<>> /\ ~IsDigit(Head(a))) \/ (b # <<>> /\ ~IsDigit(Head(b)))
    THEN IF CharOrder(a) # CharOrder(b)
         THEN Sign(CharOrder(a) - CharOrder(b))
         ELSE CompareVersionPart(IF a = <<>> THEN a ELSE Tail(a),
                                 IF b = <<>> THEN b ELSE Tail(b))
    ELSE LET za == SkipZeros(a)
             zb == SkipZeros(b)
             da == DigitRun(za)
             db == DigitRun(zb)
             digits == stringsCompare(da, db)
         IN  IF Len(da) # Len(db) THEN Sign(Len(da) - Len(db))
             ELSE IF digits # 0 THEN digits
             ELSE CompareVersionPart(SubSeq(za, Len(da) + 1, Len(za)),
                                     SubSeq(zb, Len(db) + 1, Len(zb)))

VersionCompare(a, b) ==
    LET epochs == VersionEpoch(a) - VersionEpoch(b)
        upstreams == CompareVersionPart(VersionUpstream(a), VersionUpstream(b))
    IN  IF epochs # 0 THEN Sign(epochs)
        ELSE IF upstreams # 0 THEN upstreams
        ELSE CompareVersionPart(VersionRevision(a), VersionRevision(b))

(***************************************************************************)
(* The inputs of a build: the .deb files on the source file system and the *)
(* configuration document.                                                 *)
(***************************************************************************)

\* Text constants of the modelled packages.
foo == <<"f", "o", "o">>
libz == <<"l", "i", "b", "z">>
utils == <<"u", "t", "i", "l", "s">>
v1_0_1 == <<"1", ".", "0", "-", "1">>
v1_0_2 == <<"1", ".", "0", "-", "2">>
v1_0_10 == <<"1", ".", "0", "-", "1", "0">>
v1_1_1 == <<"1", ".", "1", "-", "1">>
v2e1_0_1 == <<"2", ":", "1", ".", "0", "-", "1">>
binFoo == <<"b", "i", "n", "/", "f", "o", "o">>
etcFoo == <<"e", "t", "c", "/", "f", "o", "o">>
libZ == <<"l", "i", "b", "/", "z">>
libfoo == <<"l", "i", "b", "f", "o", "o">>
bar == <<"b", "a", "r">>
lib == <<"l", "i", "b">>
v1_0 == <<"1", ".", "0">>
v1_2 == <<"1", ".", "2">>
binBar == <<"b", "i", "n", "/", "b", "a", "r">>
binSh == <<"b", "i", "n", "/", "s", "h">>
devX == <<"d", "e", "v", "/", "x">>

\* The characters of an architecture token or a component name.
Chars(s) ==
    CASE s = "amd64" -> <<"a", "m", "d", "6", "4">>
      [] s = "arm64" -> <<"a", "r", "m", "6", "4">>
      [] s = "main" -> <<"m", "a", "i", "n">>
      [] s = "extra" -> <<"e", "x", "t", "r", "a">>

\* A control stanza as deb822 decodes it from the control file of a .deb.
Control(name, version, arch, source, section) ==
    [Name |-> name, Version |-> version, Architecture |-> arch,
     Source |-> source, Section |-> section]

\* The content of the distinct .deb files: the debian-binary member, the
\* control stanza, the entries of the data archive and the byte size.  Two
\* images are two different byte sequences.
DebImage(bytes) ==
    CASE bytes = "A" ->
           [hasDebianBinary |-> TRUE, debianBinary |-> "2.0\n",
            hasControl |-> TRUE, hasData |-> TRUE,
            control |-> Control(foo, v1_0_1, "amd64", <<>>, utils),
            data |-> <<[path |-> binFoo, isDir |-> FALSE, type |-> "regular"]>>, size |-> 10]
      [] bytes = "B" ->
           [hasDebianBinary |-> TRUE, debianBinary |-> "2.0\n",
            hasControl |-> TRUE, hasData |-> TRUE,
            control |-> Control(foo, v1_0_1, "amd64", <<>>, <<>>),
            data |-> <<[path |-> binFoo, isDir |-> FALSE, type |-> "regular"],
                       [path |-> etcFoo, isDir |-> FALSE, type |-> "regular"]>>, size |-> 12]
      [] bytes = "C" ->
           [hasDebianBinary |-> TRUE, debianBinary |-> "2.0\n",
            hasControl |-> TRUE, hasData |-> TRUE,
            control |-> Control(libz, v1_0_1, "arm64", <<>>, <<>>),
            data |-> <<[path |-> lib, isDir |-> TRUE, type |-> "dir"],
                       [path |-> libZ, isDir |-> FALSE, type |-> "regular"]>>, size |-> 10]
      [] bytes = "V2" ->
           [hasDebianBinary |-> TRUE, debianBinary |-> "2.0\n",
            hasControl |-> TRUE, hasData |-> TRUE,
            control |-> Control(foo, v1_0_2, "amd64", <<>>, utils),
            data |-> <<[path |-> binFoo, isDir |-> FALSE, type |-> "regular"]>>, size |-> 11]
      [] bytes = "V3" ->
           [hasDebianBinary |-> TRUE, debianBinary |-> "2.0\n",
            hasControl |-> TRUE, hasData |-> TRUE,
            control |-> Control(foo, v1_1_1, "amd64", <<>>, utils),
            data |-> <<[path |-> binFoo, isDir |-> FALSE, type |-> "regular"]>>, size |-> 13]
      [] bytes = "V4" ->
           [hasDebianBinary |-> TRUE, debianBinary |-> "2.0\n",
            hasControl |-> TRUE, hasData |-> TRUE,
            control |-> Control(foo, v2e1_0_1, "amd64", <<>>, utils),
            data |-> <<[path |-> binFoo, isDir |-> FALSE, type |-> "regular"]>>, size |-> 14]
      [] bytes = "V5" ->
           [hasDebianBinary |-> TRUE, debianBinary |-> "2.0\n",
            hasControl |-> TRUE, hasData |-> TRUE,
            control |-> Control(foo, v1_0_10, "amd64", <<>>, utils),
            data |-> <<[path |-> binFoo, isDir |-> FALSE, type |-> "regular"]>>, size |-> 15]
      [] bytes = "M1" ->   \* no debian-binary member
           [hasDebianBinary |-> FALSE, debianBinary |-> "",
            hasControl |-> TRUE, hasData |-> TRUE,
            control |-> Control(bar, v1_0, "amd64", <<>>, <<>>),
            data |-> <<[path |-> binFoo, isDir |-> FALSE, type |-> "regular"]>>, size |-> 16]
      [] bytes = "M2" ->   \* a debian-binary member of another format version
           [hasDebianBinary |-> TRUE, debianBinary |-> "3.0\n",
            hasControl |-> TRUE, hasData |-> TRUE,
            control |-> Control(bar, v1_0, "amd64", <<>>, <<>>),
            data |-> <<[path |-> binFoo, isDir |-> FALSE, type |-> "regular"]>>, size |-> 17]
      [] bytes = "M3" ->   \* no member named control.tar*
           [hasDebianBinary |-> TRUE, debianBinary |-> "2.0\n",
            hasControl |-> FALSE, hasData |-> TRUE,
            control |-> Control(bar, v1_0, "amd64", <<>>, <<>>),
            data |-> <<[path |-> binFoo, isDir |-> FALSE, type |-> "regular"]>>, size |-> 18]
      [] bytes = "D" ->    \* no member named data.tar*
           [hasDebianBinary |-> TRUE, debianBinary |-> "2.0\n",
            hasControl |-> TRUE, hasData |-> FALSE,
            control |-> Control(bar, v1_0, "amd64", <<>>, <<>>),
            data |-> <<>>, size |-> 19]
      [] bytes = "L" ->    \* a data archive with a symbolic link and a device
           [hasDebianBinary |-> TRUE, debianBinary |-> "2.0\n",
            hasControl |-> TRUE, hasData |-> TRUE,
            control |-> Control(bar, v1_0, "amd64", <<>>, <<>>),
            data |-> <<[path |-> <<"b", "i", "n">>, isDir |-> TRUE, type |-> "dir"],
                       [path |-> binBar, isDir |-> FALSE, type |-> "regular"],
                       [path |-> binSh, isDir |-> FALSE, type |-> "symlink"],
                       [path |-> devX, isDir |-> FALSE, type |-> "device"]>>,
            size |-> 20]

\* The source file system: the absolute path a package path of the
\* configuration resolves to (the build runs in /w, so "a.deb" and
\* "/w/a.deb" name one file) and the bytes stored there.
AbsPath(pkgPath) ==
    CASE pkgPath = "a.deb" -> "/w/a.deb"
      [] pkgPath = "/w/a.deb" -> "/w/a.deb"
      [] pkgPath = "b.deb" -> "/w/b.deb"
      [] pkgPath = "c.deb" -> "/w/c.deb"
      [] pkgPath = "v2.deb" -> "/w/v2.deb"
      [] pkgPath = "v3.deb" -> "/w/v3.deb"
      [] pkgPath = "v4.deb" -> "/w/v4.deb"
      [] pkgPath = "v5.deb" -> "/w/v5.deb"
      [] pkgPath = "m1.deb" -> "/w/m1.deb"
      [] pkgPath = "m2.deb" -> "/w/m2.deb"
      [] pkgPath = "m3.deb" -> "/w/m3.deb"
      [] pkgPath = "d.deb" -> "/w/d.deb"
      [] pkgPath = "l.deb" -> "/w/l.deb"

SourceBytes(abs) ==
    CASE abs = "/w/a.deb" -> "A"
      [] abs = "/w/b.deb" -> "B"
      [] abs = "/w/c.deb" -> "C"
      [] abs = "/w/v2.deb" -> "V2"
      [] abs = "/w/v3.deb" -> "V3"
      [] abs = "/w/v4.deb" -> "V4"
      [] abs = "/w/v5.deb" -> "V5"
      [] abs = "/w/m1.deb" -> "M1"
      [] abs = "/w/m2.deb" -> "M2"
      [] abs = "/w/m3.deb" -> "M3"
      [] abs = "/w/d.deb" -> "D"
      [] abs = "/w/l.deb" -> "L"

ReadSource(pkgPath) == SourceBytes(AbsPath(pkgPath))

(***************************************************************************)
(* internal/deb and internal/sha256sum.                                    *)
(***************************************************************************)

\* ensureIsDebianPackage: the debian-binary member must read "2.0\n".
ensureIsDebianPackage(bytes) ==
    DebImage(bytes).hasDebianBinary /\ DebImage(bytes).debianBinary = "2.0\n"

\* A GetMetadata that accepts every archive.
GetMetadataFailsNever(bytes) == FALSE

\* GetMetadata: the error cases, then the decoded control stanza.
GetMetadataFails(bytes) ==
    ~ensureIsDebianPackage(bytes) \/ ~DebImage(bytes).hasControl

GetMetadata(bytes) == DebImage(bytes).control

\* GetPackageContents: the error cases, then the walk of the data archive,
\* which skips the entries that are directories.
GetPackageContentsFails(bytes) ==
    ~ensureIsDebianPackage(bytes) \/ ~DebImage(bytes).hasData

GetPackageContents(bytes) ==
    LET entries == DebImage(bytes).data
        kept == SelectSeq(entries, LAMBDA e : ~e.isDir)
    IN  [i \in 1..Len(kept) |-> kept[i].path]

\* sha256sum.File: the digest of a byte sequence (collision-free).
Sha256(content) == [sha256 |-> content]

(***************************************************************************)
(* poolPathForPackage.                                                     *)
(***************************************************************************)

\* The source name the pool path is derived from.
poolSource(pkg) ==
    LET trimmed == IF pkg.Source = <<>> THEN TrimSpace(pkg.Name) ELSE TrimSpace(pkg.Source)
    IN  IF IndexOfChar(trimmed, "(") >= 0
        THEN SubSeq(trimmed, 1, IndexOfChar(trimmed, "("))
        ELSE trimmed

\* source[:1] and source[:4] are out of range for a shorter source.
poolPathPanics(pkg) ==
    \/ Len(poolSource(pkg)) < 1
    \/ HasPrefix(poolSource(pkg), <<"l", "i", "b">>) /\ Len(poolSource(pkg)) < 4

poolPrefix(pkg) ==
    IF HasPrefix(poolSource(pkg), <<"l", "i", "b">>)
    THEN SubSeq(poolSource(pkg), 1, 4)
    ELSE SubSeq(poolSource(pkg), 1, 1)

\* <name>_<version>_<arch>.deb
debFileName(pkg) ==
    pkg.Name \o <<"_">> \o pkg.Version \o <<"_">> \o Chars(pkg.Architecture)
        \o <<".", "d", "e", "b">>

poolPathForPackage(componentName, pkg) ==
    <<"p", "o", "o", "l", "/">> \o Chars(componentName) \o <<"/">> \o poolPrefix(pkg)
        \o <<"/">> \o poolSource(pkg) \o <<"/">> \o debFileName(pkg)

(***************************************************************************)
(* The order of the Packages index.                                        *)
(***************************************************************************)

\* types.Package.Compare: name, then version, then architecture.
PackageCompare(a, b) ==
    LET byName == stringsCompare(a.Name, b.Name)
        byVersion == VersionCompare(a.Version, b.Version)
    IN  IF byName # 0 THEN byName
        ELSE IF byVersion # 0 THEN byVersion
        ELSE stringsCompare(Chars(a.Architecture), Chars(b.Architecture))

\* The less function handed to sort.Slice.
PackageLess(a, b) == PackageCompare(a, b) < 0

\* sort.Slice on a slice of at most twelve elements is an insertion sort:
\* each element moves left while it is less than its left neighbour.
RECURSIVE InsertPackage(_, _)
InsertPackage(sorted, x) ==
    IF sorted = <<>> THEN <<x>>
    ELSE IF PackageLess(x, sorted[Len(sorted)])
    THEN InsertPackage(SubSeq(sorted, 1, Len(sorted) - 1), x) \o <<sorted[Len(sorted)]>>
    ELSE sorted \o <<x>>

\* The sort left out: the packages stay in configuration order.
SortPackagesOmitted(packages) == packages

RECURSIVE SortPackages(_)
SortPackages(packages) ==
    IF packages = <<>> THEN <<>>
    ELSE InsertPackage(SortPackages(SubSeq(packages, 1, Len(packages) - 1)),
                       packages[Len(packages)])

\* The packages of a bucket whose architecture is the indexed one.
FilterPackages(packages, arch) ==
    SelectSeq(packages, LAMBDA pkg : pkg.Architecture = arch)

(***************************************************************************)
(* The configurations the model is run on.                                 *)
(***************************************************************************)

\* Bounds of the model: the package paths a configuration of the first
\* family lists in total, and the length of the package list of the second.
MaxRefs == 2
MaxSortLen == 4

\* The two revisions of buildRepository in the repository: main.go lists
\* package paths literally and reads the release's architectures from
\* archsForReleaseComponent; the other revision expands glob patterns (its
\* list of matches is the Packages list here) and accumulates the
\* architectures while it writes the indices.
Revisions == {"main.go", "part_012"}

\* Release and component names of the first family, one sequence of
\* releases per line; a name may repeat.
Shapes ==
    { << [Name |-> "r1", Components |-> <<"main">>] >>,
      << [Name |-> "r1", Components |-> <<"main", "extra">>] >>,
      << [Name |-> "r1", Components |-> <<"main", "main">>] >>,
      << [Name |-> "r1", Components |-> <<"main">>], [Name |-> "r2", Components |-> <<"main">>] >>,
      << [Name |-> "r1", Components |-> <<"main">>], [Name |-> "r2", Components |-> <<"extra">>] >>,
      << [Name |-> "r1", Components |-> <<"main">>], [Name |-> "r1", Components |-> <<"main">>] >>,
      << [Name |-> "r1", Components |-> <<"main">>], [Name |-> "r1", Components |-> <<"extra">>] >>,
      << [Name |-> "r1", Components |-> <<>>], [Name |-> "r2", Components |-> <<"main">>] >>,
      << [Name |-> "r1", Components |-> <<"main">>], [Name |-> "r2", Components |-> <<>>] >> }

StructPaths == {"a.deb", "/w/a.deb", "b.deb", "c.deb"}
SortPaths == {"a.deb", "v2.deb", "v3.deb", "v4.deb", "v5.deb"}

SeqsUpTo(S, n) == UNION {[1..k -> S] : k \in 0..n}

RECURSIVE SlotsBefore(_, _)
SlotsBefore(shape, i) ==
    IF i <= 1 THEN 0 ELSE SlotsBefore(shape, i - 1) + Len(shape[i - 1].Components)

RECURSIVE TotalLen(_)
TotalLen(lists) == IF lists = <<>> THEN 0 ELSE Len(Head(lists)) + TotalLen(Tail(lists))

\* The configuration of a shape whose components list the given packages.
FillShape(shape, lists) ==
    [i \in 1..Len(shape) |->
        [Name |-> shape[i].Name,
         Components |->
            [j \in 1..Len(shape[i].Components) |->
                [Name |-> shape[i].Components[j],
                 Packages |-> lists[SlotsBefore(shape, i) + j]]]]]

StructConfigs ==
    UNION { { FillShape(shape, lists) :
                lists \in { l \in [1..SlotsBefore(shape, Len(shape) + 1) -> SeqsUpTo(StructPaths, MaxRefs)] :
                               TotalLen(l) <= MaxRefs } } :
            shape \in Shapes }

\* The second family: one release with one component that lists distinct
\* files in any order (the first family covers repeated paths).
SortConfigs ==
    { << [Name |-> "r1", Components |-> << [Name |-> "main", Packages |-> l] >>] >> :
        l \in { q \in SeqsUpTo(SortPaths, MaxSortLen) :
                  \A i, j \in 1..Len(q) : q[i] = q[j] => i = j } }

\* The third family: packages that are no valid .deb archive (m1, m2, m3)
\* or lack the data archive (d), alone or next to the valid a.deb; every
\* component lists at most one package.
MalformedPaths == {"m1.deb", "m2.deb", "m3.deb", "d.deb"}

MalformedShapes ==
    { << [Name |-> "r1", Components |-> <<"main">>] >>,
      << [Name |-> "r1", Components |-> <<"main", "extra">>] >>,
      << [Name |-> "r1", Components |-> <<"main">>], [Name |-> "r2", Components |-> <<"main">>] >>,
      << [Name |-> "r1", Components |-> <<"main">>], [Name |-> "r1", Components |-> <<"extra">>] >> }

MalformedConfigs ==
    UNION { { FillShape(shape, lists) :
                lists \in { l \in [1..SlotsBefore(shape, Len(shape) + 1) ->
                                      SeqsUpTo(MalformedPaths \cup {"a.deb"}, 1)] :
                               \E s \in DOMAIN l : l[s] # <<>> /\ l[s][1] \in MalformedPaths } } :
            shape \in MalformedShapes }

\* The fourth family: a package whose data archive holds entries that are
\* neither regular files nor directories, alone or next to a.deb.
LinkPaths == {"l.deb"}

LinkConfigs ==
    { << [Name |-> "r1", Components |-> << [Name |-> "main", Packages |-> l] >>] >> :
        l \in { <<"l.deb">>, <<"l.deb", "a.deb">>, <<"a.deb", "l.deb">> } }

Configs == StructConfigs \cup SortConfigs \cup MalformedConfigs \cup LinkConfigs

\* The package references of a configuration in the order the nested loops
\* of buildRepository visit them.
ComponentRefs(c, ri, ci) ==
    [k \in 1..Len(c.Components[ci].Packages) |->
        [ri |-> ri, ci |-> ci, pkgPath |-> c.Components[ci].Packages[k]]]

RECURSIVE ReleaseRefs(_, _, _)
ReleaseRefs(c, ri, ci) ==
    IF ci > Len(c.Components) THEN <<>>
    ELSE ComponentRefs(c, ri, ci) \o ReleaseRefs(c, ri, ci + 1)

RECURSIVE RefsFrom(_, _)
RefsFrom(cf, ri) ==
    IF ri > Len(cf) THEN <<>> ELSE ReleaseRefs(cf[ri], ri, 1) \o RefsFrom(cf, ri + 1)

Refs(cf) == RefsFrom(cf, 1)

(***************************************************************************)
(* The state of a build.                                                   *)
(***************************************************************************)

VARIABLES
    rev,        \* the revision of buildRepository that runs
    conf,       \* the configuration document (conf.Releases)
    run,        \* "first" build, or the "second" one with the same inputs
    pc,         \* the position of buildRepository
    next,       \* pool loop: index into Refs(conf) of the next package path
    ri,         \* release loop of the second phase: index into conf
    ci,         \* component loop: index into conf[ri].Components
    archsLeft,  \* keys the range over archsForReleaseComponent[...] has yet to yield
    packagesForReleaseComponent,
    archsForReleaseComponent,
    pkgPoolPaths,
    architectures,  \* part_012: the release's architecture list as accumulated
    release,    \* writeReleaseFile: the types.Release value r
    pool,       \* files under <repoDir>/pool: path -> bytes
    dists,      \* files under <repoDir>/dists: path -> content
    signingKey, \* <repoDir>/signing_key.asc, or "absent"
    copies,     \* history: cp.Copy calls of this build per absolute source path
    provenance, \* history: the package path behind each bucket entry
    firstComponent, \* history: the component that first processed a package path
    written,    \* history: the dists files this build has written and closed
    hashed,     \* history: the releases (indices) whose subtree this build hashed
    signed,     \* history: the releases (indices) whose InRelease this build wrote
    firstRun,   \* history: what the first build left behind
    env,        \* what the build finds: the key file, the document header, a fault
    err,        \* the error buildRepository returned; "" is nil
    ioFailed,   \* history: an I/O step of this build has failed
    keyWrites,  \* history: how often this build wrote signing_key.asc
    atStart,    \* history: the output directory as this build found it
    pathCall,   \* the arguments of a call of poolPathForPackage
    pathResult  \* what that call produced

\* The state of the serve command.
VARIABLES
    flags,      \* the command line: tls, domain, email
    servePc,    \* the position of the serve command's Action
    serveErr,   \* the error the Action returned; "" is nil
    exit,       \* how the process ended, if it has
    appContextCache,    \* appcontext: the cached context (0 is nil)
    appCtxDone, \* the cached context is cancelled
    notifies,   \* history: calls of signal.Notify
    contextCalls,   \* history: calls of appcontext.Context
    returnedCtx,    \* history: the contexts appcontext.Context has returned
    signals,    \* termination signals queued in the handler's channel
    sent,       \* history: termination signals sent to the process
    retries,    \* appcontext: signals the handler goroutine has received
    groupCtx,   \* errgroup: the derived context, "none" before WithContext
    groupErr,   \* errgroup: the first error a goroutine returned; "" is nil
    srv,        \* per server: the goroutines of ServeWithContext
    exchange    \* a request a server has answered, with the response

serveVars ==
    << flags, servePc, serveErr, exit, appContextCache, appCtxDone, notifies,
       contextCalls, returnedCtx, signals, sent, retries, groupCtx, groupErr, srv,
       exchange >>

vars ==
    << rev, conf, run, pc, next, ri, ci, archsLeft, packagesForReleaseComponent,
       archsForReleaseComponent, pkgPoolPaths, architectures, release, pool,
       dists, signingKey, copies, provenance, firstComponent, written, hashed,
       signed, firstRun, env, err, ioFailed, keyWrites, atStart, pathCall,
       pathResult, serveVars >>

\* An empty Go map, an empty directory tree.
EmptyMap == [k \in {} |-> {}]

\* m[k] of a Go map: the zero value when the key is absent.
MapGet(m, k, zero) == IF k \in DOMAIN m THEN m[k] ELSE zero

MapPut(m, k, v) == (k :> v) @@ m

Range(f) == {f[x] : x \in DOMAIN f}

AbsPaths ==
    {AbsPath(p) : p \in StructPaths \cup SortPaths \cup MalformedPaths \cup LinkPaths}

\* The private key the build signs with, and its public half.
PrivateKey == "K"

\* The export of a key other than the one that signs.
PublicHalfOfOtherKey(key) == [public |-> "other"]

PublicHalf(key) == [public |-> key]

\* fmt.Sprintf("%s/%s", releaseConf.Name, componentConf.Name)
ReleaseComponentKey(releaseName, componentName) == releaseName \o "/" \o componentName

(***************************************************************************)
(* Files under dists/.  A path is its sequence of segments; a content is   *)
(* the payload and the codec compressmagic.NewWriter chose from the name.  *)
(***************************************************************************)

ReleaseDir(releaseName) == <<"dists", releaseName>>

ComponentDir(releaseName, componentName) == <<"dists", releaseName, componentName>>

ArchDir(releaseName, componentName, arch) ==
    ComponentDir(releaseName, componentName) \o <<"binary-" \o arch>>

PackagesPath(releaseName, componentName, arch, name) ==
    ArchDir(releaseName, componentName, arch) \o <<name>>

ContentsPath(releaseName, componentName, arch) ==
    ComponentDir(releaseName, componentName) \o <<"Contents-" \o arch \o ".gz">>

InReleasePath(releaseName) == ReleaseDir(releaseName) \o <<"InRelease">>

IsUnder(path, dir) == Len(path) > Len(dir) /\ SubSeq(path, 1, Len(dir)) = dir

\* filepath.Rel(dir, path) for a path under dir.
RelPath(dir, path) == SubSeq(path, Len(dir) + 1, Len(path))

\* The codec of compressmagic.NewWriter(f, f.Name()).
CodecFor(name) ==
    CASE name = "Packages" -> "none"
      [] name = "Packages.xz" -> "xz"
      [] OTHER -> "gzip"

\* The bytes of a file: what was written through which codec.
FileContent(kind, codec, payload) == [kind |-> kind, codec |-> codec, payload |-> payload]

\* What os.Create leaves before anything is written.
EmptyFile == FileContent("empty", "none", <<>>)

\* The byte size of a file: a function of its content.
FileSize(content) ==
    (IF content.codec = "none" THEN 0 ELSE 32)
    + (CASE content.kind = "empty" -> 0
         [] content.kind = "InRelease" ->
              200 + Cardinality(content.payload.SHA256)
                  + Len(content.payload.Architectures) + Len(content.payload.Components)
         [] OTHER -> Len(content.payload))

\* sha256sum.Directory: one entry per file under dir, directories skipped.
Directory(tree, dir) ==
    { [Filename |-> RelPath(dir, path), Hash |-> Sha256(tree[path]),
       Size |-> FileSize(tree[path])] : path \in {q \in DOMAIN tree : IsUnder(q, dir)} }

(***************************************************************************)
(* writePackagesIndice, writeContentsIndice.                               *)
(***************************************************************************)

\* deb822.Marshal: one stanza per package, fields by their deb822 names.
Stanza(pkg) ==
    [Package |-> pkg.Name, Version |-> pkg.Version, Architecture |-> pkg.Architecture,
     Source |-> pkg.Source, Section |-> pkg.Section, Filename |-> pkg.Filename,
     Size |-> pkg.Size, SHA256 |-> pkg.SHA256]

Marshal(packages) == [i \in 1..Len(packages) |-> Stanza(packages[i])]

\* A writer that loses the last stanza of the compressed copy.
writePackagesIndiceShortXz(tree, archDir, packages) ==
    MapPut(MapPut(tree, archDir \o <<"Packages">>,
                  FileContent("Packages", CodecFor("Packages"), Marshal(packages))),
           archDir \o <<"Packages.xz">>,
           FileContent("Packages", CodecFor("Packages.xz"),
                       Marshal(SubSeq(packages, 1, Len(packages) - 1))))

\* Both files receive the one marshalled buffer; the deferred Close calls
\* have run when the function returns.
writePackagesIndice(tree, archDir, packages) ==
    LET packageList == Marshal(packages)
    IN  MapPut(MapPut(tree, archDir \o <<"Packages">>,
                      FileContent("Packages", CodecFor("Packages"), packageList)),
               archDir \o <<"Packages.xz">>,
               FileContent("Packages", CodecFor("Packages.xz"), packageList))

\* section/name when the package has a section, the bare name otherwise.
QualifiedPackageName(pkg) ==
    IF pkg.Section # <<>> THEN pkg.Section \o <<"/">> \o pkg.Name ELSE pkg.Name

\* contents[path] = append(contents[path], qualifiedPackageName), for
\* every path of one package.
RECURSIVE AddPaths(_, _, _)
AddPaths(contents, paths, name) ==
    IF paths = <<>> THEN contents
    ELSE AddPaths(MapPut(contents, Head(paths), Append(MapGet(contents, Head(paths), <<>>), name)),
                  Tail(paths), name)

\* The contents map after the loop over the packages, each read back from
\* its pool file.
RECURSIVE CollectContents(_, _, _)
CollectContents(contents, poolFiles, packages) ==
    IF packages = <<>> THEN contents
    ELSE CollectContents(
            AddPaths(contents, GetPackageContents(poolFiles[Head(packages).Filename]),
                     QualifiedPackageName(Head(packages))),
            poolFiles, Tail(packages))

\* A pool file that is missing or is no readable package fails the index.
ContentsFails(poolFiles, packages) ==
    \E i \in 1..Len(packages) :
        \/ packages[i].Filename \notin DOMAIN poolFiles
        \/ GetPackageContentsFails(poolFiles[packages[i].Filename])

\* sort.Strings over the keys of the map.
RECURSIVE SortStrings(_)
SortStrings(S) ==
    IF S = {} THEN <<>>
    ELSE LET least == CHOOSE x \in S : \A y \in S : stringsCompare(x, y) <= 0
         IN  <<least>> \o SortStrings(S \ {least})

writeContentsIndice(tree, poolFiles, componentDir, packages, arch) ==
    LET contents == CollectContents(EmptyMap, poolFiles, packages)
        paths == SortStrings(DOMAIN contents)
        lines == [i \in 1..Len(paths) |-> [path |-> paths[i], packages |-> contents[paths[i]]]]
    IN  MapPut(tree, componentDir \o <<"Contents-" \o arch \o ".gz">>,
               FileContent("Contents", CodecFor("Contents-" \o arch \o ".gz"), lines))

\* A writer whose deferred Close fails: what it had buffered is lost.
CloseFails(tree, path) ==
    [tree EXCEPT ![path] = FileContent("truncated", @.codec, <<>>)]

(***************************************************************************)
(* What a build finds: the key file, the header of the configuration       *)
(* document, and at most one fault of the file system.                     *)
(***************************************************************************)

APIVersion == "aptify/v1alpha1"

NormalEnv ==
    [keyExists |-> TRUE, apiVersion |-> APIVersion, kind |-> "Repository", fault |-> "none"]

\* No key file, or a document of another schema version or kind.
StartFailures ==
    { [NormalEnv EXCEPT !.keyExists = FALSE],
      [NormalEnv EXCEPT !.apiVersion = "aptify/v1"],
      [NormalEnv EXCEPT !.apiVersion = ""],
      [NormalEnv EXCEPT !.kind = "Other"] }

\* A pool file removed between the two loops; a Close that fails.
Faults ==
    { [NormalEnv EXCEPT !.fault = "deletePool"], [NormalEnv EXCEPT !.fault = "close"] }

\* The configurations the builds with a start failure or a fault run on:
\* one release whose components list a.deb and c.deb.
IsFaultConfig(c) ==
    /\ Len(c) = 1
    /\ \A n \in 1..Len(Refs(c)) : Refs(c)[n].pkgPath \in {"a.deb", "c.deb"}

FaultConfigs == { c \in StructConfigs : IsFaultConfig(c) }

\* What the second build may find where the first found a key and a valid
\* document.
RebuildEnvs(e, c, freshDir) ==
    IF e = NormalEnv /\ IsFaultConfig(c) /\ ~freshDir
    THEN {NormalEnv} \cup StartFailures
    ELSE {e}

\* The check of the key file left out.
KeyMissingIgnored(e) == FALSE

\* os.Stat(privateKeyPath) reports that the file does not exist.
KeyMissing(e) == ~e.keyExists

\* A FromYAML that looks at the apiVersion only.
FromYAMLFailsOnVersionOnly(document) == document.apiVersion # APIVersion

\* GetConfigByKind: only the kind Repository is known.
GetConfigByKindFails(kind) == kind # "Repository"

\* FromYAML: the switch on the apiVersion, then the kind.
FromYAMLFails(document) ==
    document.apiVersion # APIVersion \/ GetConfigByKindFails(document.kind)

\* buildRepository up to the first loop: the key file must exist and the
\* configuration must parse.
LoadInputs ==
    /\ pc = "start"
    /\ IF KeyMissing(env)
       THEN /\ pc' = "failed"
            /\ err' = "private key not found; run 'aptify init-keys' to generate one"
       ELSE IF FromYAMLFails(env)
       THEN pc' = "failed" /\ err' = "failed to read config"
       ELSE pc' = "pool" /\ err' = ""
    /\ UNCHANGED serveVars
    /\ UNCHANGED << env, atStart, pathCall, pathResult, ioFailed, keyWrites >>
    /\ UNCHANGED << rev, conf, run, next, ri, ci, archsLeft, packagesForReleaseComponent,
                    archsForReleaseComponent, pkgPoolPaths, architectures, release, pool,
                    dists, signingKey, copies, provenance, firstComponent, written,
                    hashed, signed, firstRun >>

(***************************************************************************)
(* buildRepository, first loop: copy packages to the pool directory.       *)
(***************************************************************************)

NoRelease ==
    [Codename |-> "", Architectures |-> <<>>, Components |-> <<>>, Date |-> "", SHA256 |-> {}]

NoCopies == [a \in AbsPaths |-> 0]

\* The pool path of a new package derived from a fixed component instead
\* of the component at hand.
AssignFilenameFixedComponent(poolPaths, componentName, pkgPath, pkg) ==
    IF pkgPath \in DOMAIN poolPaths
    THEN poolPaths[pkgPath]
    ELSE poolPathForPackage("main", pkg)

\* "Only copy each deb file once": the pool path recorded for the package
\* path, or a new one under the component at hand.
AssignFilename(poolPaths, componentName, pkgPath, pkg) ==
    IF pkgPath \in DOMAIN poolPaths
    THEN poolPaths[pkgPath]
    ELSE poolPathForPackage(componentName, pkg)

\* The pool loop left after its first package.
PoolPhaseDoneEarly == next > Len(Refs(conf)) \/ next > 1

\* The pool loop has visited every package path of every release.
PoolPhaseDone == next > Len(Refs(conf))

\* A range that yields a default architecture for a component without
\* packages.
RangeArchsDefault(archs, key) == MapGet(archs, key, {"amd64"})

\* The keys the range over archsForReleaseComponent[key] yields.
RangeArchs(archs, key) == MapGet(archs, key, {})

EnterComponent(i, j) ==
    /\ ci' = j
    /\ IF j > Len(conf[i].Components)
       THEN pc' = "release" /\ archsLeft' = {}
       ELSE /\ pc' = "index"
            /\ archsLeft' = RangeArchs(archsForReleaseComponent,
                    ReleaseComponentKey(conf[i].Name, conf[i].Components[j].Name))

EnterRelease(i) ==
    /\ ri' = i
    /\ architectures' = <<>>
    /\ IF i > Len(conf)
       THEN pc' = "key" /\ ci' = 1 /\ archsLeft' = {}
       ELSE EnterComponent(i, 1)

\* One iteration of the innermost loop: metadata, digest, pool placement,
\* size, bucket.
PlacePackage ==
    /\ pc = "pool"
    /\ ~PoolPhaseDone
    /\ LET ref == Refs(conf)[next]
           componentName == conf[ref.ri].Components[ref.ci].Name
           releaseComponent == ReleaseComponentKey(conf[ref.ri].Name, componentName)
           bytes == ReadSource(ref.pkgPath)
           meta == GetMetadata(bytes)
           seen == ref.pkgPath \in DOMAIN pkgPoolPaths
           filename == AssignFilename(pkgPoolPaths, componentName, ref.pkgPath, meta)
           poolAfter == IF seen THEN pool ELSE MapPut(pool, filename, bytes)
           pkg == [Name |-> meta.Name, Version |-> meta.Version,
                   Architecture |-> meta.Architecture, Source |-> meta.Source,
                   Section |-> meta.Section, SHA256 |-> Sha256(bytes),
                   Filename |-> filename, Size |-> DebImage(poolAfter[filename]).size]
       IN  IF \/ GetMetadataFails(bytes)
              \/ ~seen /\ poolPathPanics(meta)
              \/ filename \notin DOMAIN poolAfter    \* os.Stat of the pool file
           THEN /\ pc' = "failed"
                /\ err' = IF GetMetadataFails(bytes) THEN "failed to get package metadata"
                          ELSE IF ~seen /\ poolPathPanics(meta)
                          THEN "panic: slice bounds out of range"
                          ELSE "failed to get package size"
                /\ UNCHANGED << next, packagesForReleaseComponent, archsForReleaseComponent,
                                pkgPoolPaths, pool, copies, provenance, firstComponent >>
           ELSE /\ pc' = "pool"
                /\ err' = err
                /\ next' = next + 1
                /\ archsForReleaseComponent' =
                      MapPut(archsForReleaseComponent, releaseComponent,
                             MapGet(archsForReleaseComponent, releaseComponent, {})
                                \cup {meta.Architecture})
                /\ pkgPoolPaths' = IF seen THEN pkgPoolPaths
                                   ELSE MapPut(pkgPoolPaths, ref.pkgPath, filename)
                /\ pool' = poolAfter
                /\ packagesForReleaseComponent' =
                      MapPut(packagesForReleaseComponent, releaseComponent,
                             Append(MapGet(packagesForReleaseComponent, releaseComponent, <<>>), pkg))
                /\ copies' = IF seen THEN copies
                             ELSE [copies EXCEPT ![AbsPath(ref.pkgPath)] = @ + 1]
                /\ provenance' =
                      MapPut(provenance, releaseComponent,
                             Append(MapGet(provenance, releaseComponent, <<>>), ref.pkgPath))
                /\ firstComponent' = IF seen THEN firstComponent
                                     ELSE MapPut(firstComponent, ref.pkgPath, componentName)
    /\ UNCHANGED serveVars
    /\ UNCHANGED << env, atStart, pathCall, pathResult >>
    /\ UNCHANGED << rev, conf, run, ri, ci, archsLeft, architectures, release, dists,
                    signingKey, written, hashed, signed, firstRun, ioFailed, keyWrites >>

\* The pool loop ends; the loop that creates the release files begins.
EndPoolPhase ==
    /\ pc = "pool"
    /\ PoolPhaseDone
    /\ EnterRelease(1)
    /\ UNCHANGED << err, ioFailed, keyWrites >>
    /\ UNCHANGED serveVars
    /\ UNCHANGED << env, atStart, pathCall, pathResult >>
    /\ UNCHANGED << rev, conf, run, next, packagesForReleaseComponent,
                    archsForReleaseComponent, pkgPoolPaths, release, pool, dists,
                    signingKey, copies, provenance, firstComponent, written, hashed,
                    signed, firstRun >>

(***************************************************************************)
(* buildRepository, second loop: create release files.                     *)
(***************************************************************************)

\* The fault "deletePool": a file of the pool disappears after the first
\* loop and before the first index is written.
DeletePoolFile ==
    /\ env.fault = "deletePool"
    /\ pc = "index"
    /\ written = {}
    /\ Range(pkgPoolPaths) \subseteq DOMAIN pool
    /\ \E f \in DOMAIN pool : pool' = [q \in DOMAIN pool \ {f} |-> pool[q]]
    /\ UNCHANGED serveVars
    /\ UNCHANGED << env, atStart, pathCall, pathResult, err, ioFailed, keyWrites >>
    /\ UNCHANGED << rev, conf, run, pc, next, ri, ci, archsLeft,
                    packagesForReleaseComponent, archsForReleaseComponent, pkgPoolPaths,
                    architectures, release, dists, signingKey, copies, provenance,
                    firstComponent, written, hashed, signed, firstRun >>

\* One iteration of the range over the architectures of a component, in
\* whatever order the map yields them: filter, sort, Packages, Contents.
WriteIndices(arch) ==
    /\ pc = "index"
    /\ arch \in archsLeft
    /\ LET releaseName == conf[ri].Name
           componentName == conf[ri].Components[ci].Name
           releaseComponent == ReleaseComponentKey(releaseName, componentName)
           packages == SortPackages(FilterPackages(
                          MapGet(packagesForReleaseComponent, releaseComponent, <<>>), arch))
           xzPath == PackagesPath(releaseName, componentName, arch, "Packages.xz")
           asWritten == writePackagesIndice(dists, ArchDir(releaseName, componentName, arch),
                                            packages)
           withPackages == IF env.fault = "close" THEN CloseFails(asWritten, xzPath)
                           ELSE asWritten
       IN  IF ContentsFails(pool, packages)
           THEN /\ pc' = "failed"
                /\ err' = "failed to write contents file"
                /\ dists' = MapPut(withPackages, ContentsPath(releaseName, componentName, arch),
                                   FileContent("Contents",
                                               CodecFor("Contents-" \o arch \o ".gz"), <<>>))
                /\ written' = written \cup
                      { PackagesPath(releaseName, componentName, arch, "Packages"),
                        PackagesPath(releaseName, componentName, arch, "Packages.xz"),
                        ContentsPath(releaseName, componentName, arch) }
                /\ UNCHANGED << archsLeft, architectures >>
           ELSE /\ pc' = "index"
                /\ err' = err
                /\ dists' = writeContentsIndice(withPackages, pool,
                                ComponentDir(releaseName, componentName), packages, arch)
                /\ written' = written \cup
                      { PackagesPath(releaseName, componentName, arch, "Packages"),
                        PackagesPath(releaseName, componentName, arch, "Packages.xz"),
                        ContentsPath(releaseName, componentName, arch) }
                /\ archsLeft' = archsLeft \ {arch}
                /\ architectures' = IF rev = "part_012" THEN Append(architectures, arch)
                                    ELSE architectures
    /\ ioFailed' = (ioFailed \/ env.fault = "close")
    /\ keyWrites' = keyWrites
    /\ UNCHANGED serveVars
    /\ UNCHANGED << env, atStart, pathCall, pathResult >>
    /\ UNCHANGED << rev, conf, run, next, ri, ci, packagesForReleaseComponent,
                    archsForReleaseComponent, pkgPoolPaths, release, pool, signingKey,
                    copies, provenance, firstComponent, hashed, signed, firstRun >>

\* The range over the architectures of the component is exhausted.
NextComponent ==
    /\ pc = "index"
    /\ archsLeft = {}
    /\ EnterComponent(ri, ci + 1)
    /\ UNCHANGED << err, ioFailed, keyWrites >>
    /\ UNCHANGED serveVars
    /\ UNCHANGED << env, atStart, pathCall, pathResult >>
    /\ UNCHANGED << rev, conf, run, next, ri, packagesForReleaseComponent,
                    archsForReleaseComponent, pkgPoolPaths, architectures, release, pool,
                    dists, signingKey, copies, provenance, firstComponent, written,
                    hashed, signed, firstRun >>

(***************************************************************************)
(* writeReleaseFile and the end of buildRepository.                        *)
(***************************************************************************)

\* The orders in which a range over a Go map may yield its keys.
Orderings(S) ==
    { o \in [1..Cardinality(S) -> S] : \A i, j \in 1..Cardinality(S) : o[i] = o[j] => i = j }

\* The architectures handed to writeReleaseFile.  main.go ranges over
\* archsForReleaseComponent[releaseConf.Name]; the other revision has
\* appended one entry per (component, architecture) index it wrote.
ReleaseArchitectures(revision, archs, releaseName, accumulated) ==
    IF revision = "main.go"
    THEN Orderings(RangeArchs(archs, releaseName))
    ELSE {accumulated}

\* The component names of the release, one per configured component.
ReleaseComponents(releaseConf) ==
    [j \in 1..Len(releaseConf.Components) |-> releaseConf.Components[j].Name]

\* writeReleaseFile up to sha256sum.Directory: the Release value with the
\* manifest of everything under the release directory.
HashRelease ==
    /\ pc = "release"
    /\ \E archList \in ReleaseArchitectures(rev, archsForReleaseComponent, conf[ri].Name,
                                             architectures) :
          release' = [Codename |-> conf[ri].Name,
                      Architectures |-> archList,
                      Components |-> ReleaseComponents(conf[ri]),
                      Date |-> run,
                      SHA256 |-> Directory(dists, ReleaseDir(conf[ri].Name))]
    /\ hashed' = hashed \cup {ri}
    /\ pc' = "create"
    /\ UNCHANGED << err, ioFailed, keyWrites >>
    /\ UNCHANGED serveVars
    /\ UNCHANGED << env, atStart, pathCall, pathResult >>
    /\ UNCHANGED << rev, conf, run, next, ri, ci, archsLeft, packagesForReleaseComponent,
                    archsForReleaseComponent, pkgPoolPaths, architectures, pool, dists,
                    signingKey, copies, provenance, firstComponent, written, signed,
                    firstRun >>

\* os.Create(InRelease): the file exists and is empty.
CreateInRelease ==
    /\ pc = "create"
    /\ dists' = MapPut(dists, InReleasePath(conf[ri].Name), EmptyFile)
    /\ written' = written \ {InReleasePath(conf[ri].Name)}
    /\ pc' = "sign"
    /\ UNCHANGED << err, ioFailed, keyWrites >>
    /\ UNCHANGED serveVars
    /\ UNCHANGED << env, atStart, pathCall, pathResult >>
    /\ UNCHANGED << rev, conf, run, next, ri, ci, archsLeft, packagesForReleaseComponent,
                    archsForReleaseComponent, pkgPoolPaths, architectures, release, pool,
                    signingKey, copies, provenance, firstComponent, hashed, signed,
                    firstRun >>

\* The clear-signed document deb822's encoder writes for r.
ClearSigned(r, key) == [r EXCEPT !.Date = r.Date] @@ [signedBy |-> key]

\* encoder.Encode(r) and the deferred Close calls; then the next release.
SignRelease ==
    /\ pc = "sign"
    /\ dists' = MapPut(dists, InReleasePath(conf[ri].Name),
                       FileContent("InRelease", "none", ClearSigned(release, PrivateKey)))
    /\ written' = written \cup {InReleasePath(conf[ri].Name)}
    /\ signed' = signed \cup {ri}
    /\ EnterRelease(ri + 1)
    /\ UNCHANGED << err, ioFailed, keyWrites >>
    /\ UNCHANGED serveVars
    /\ UNCHANGED << env, atStart, pathCall, pathResult >>
    /\ UNCHANGED << rev, conf, run, next, packagesForReleaseComponent,
                    archsForReleaseComponent, pkgPoolPaths, release, pool, signingKey,
                    copies, provenance, firstComponent, hashed, firstRun >>

\* "Save a copy of the signing key."
WriteSigningKey ==
    /\ pc = "key"
    /\ signingKey' = PublicHalf(PrivateKey)
    /\ keyWrites' = keyWrites + 1
    /\ pc' = "done"
    /\ UNCHANGED << err, ioFailed >>
    /\ UNCHANGED serveVars
    /\ UNCHANGED << env, atStart, pathCall, pathResult >>
    /\ UNCHANGED << rev, conf, run, next, ri, ci, archsLeft, packagesForReleaseComponent,
                    archsForReleaseComponent, pkgPoolPaths, architectures, release, pool,
                    dists, copies, provenance, firstComponent, written, hashed, signed,
                    firstRun >>

\* The build is invoked again with the same configuration, packages and
\* key, on a fresh output directory or over the tree of the first run.
Rebuild(freshDir) ==
    /\ pc = "done"
    /\ run = "first"
    /\ run' = "second"
    /\ firstRun' = [dists |-> dists, pool |-> pool]
    /\ pool' = IF freshDir THEN EmptyMap ELSE pool
    /\ dists' = IF freshDir THEN EmptyMap ELSE dists
    /\ signingKey' = IF freshDir THEN "absent" ELSE signingKey
    /\ atStart' = [pool |-> pool', dists |-> dists', signingKey |-> signingKey']
    /\ env' \in RebuildEnvs(env, conf, freshDir)
    /\ err' = ""
    /\ ioFailed' = FALSE
    /\ keyWrites' = 0
    /\ pc' = "start"
    /\ next' = 1
    /\ ri' = 1
    /\ ci' = 1
    /\ archsLeft' = {}
    /\ packagesForReleaseComponent' = EmptyMap
    /\ archsForReleaseComponent' = EmptyMap
    /\ pkgPoolPaths' = EmptyMap
    /\ architectures' = <<>>
    /\ release' = NoRelease
    /\ copies' = NoCopies
    /\ provenance' = EmptyMap
    /\ firstComponent' = EmptyMap
    /\ written' = {}
    /\ hashed' = {}
    /\ signed' = {}
    /\ UNCHANGED << rev, conf, pathCall, pathResult, serveVars >>

\* The two servers of the serve command, and the serve command at rest.
Servers == {"http", "https"}

NoLocation == [scheme |-> "", host |-> "", uri |-> <<>>]

NoExit == [by |-> "none", status |-> 0]

IdleServer ==
    [pc |-> "off", watcher |-> "off", shutdown |-> FALSE, deadline |-> 0,
     outcome |-> "", result |-> ""]

NoExchange ==
    [server |-> "none", request |-> [host |-> "", path |-> <<>>, query |-> <<>>],
     response |-> [handler |-> "none", status |-> 0, location |-> NoLocation]]

\* The serve command is not running.
IdleServe ==
    /\ flags = [tls |-> FALSE, domain |-> "", email |-> ""]
    /\ servePc = "idle"
    /\ serveErr = ""
    /\ exit = NoExit
    /\ appContextCache = 0
    /\ appCtxDone = FALSE
    /\ notifies = 0
    /\ contextCalls = 0
    /\ returnedCtx = {}
    /\ signals = 0
    /\ sent = 0
    /\ retries = 0
    /\ groupCtx = "none"
    /\ groupErr = ""
    /\ srv = [s \in Servers |-> IdleServer]
    /\ exchange = NoExchange

\* No call of poolPathForPackage is under study.
NoPathCall == [componentName |-> "main", pkg |-> Control(<<>>, <<>>, "amd64", <<>>, <<>>)]

NoPathResult == [state |-> "none", path |-> <<>>]

Init ==
    /\ rev \in Revisions
    /\ \/ conf \in Configs /\ env = NormalEnv
       \/ conf \in FaultConfigs /\ env \in StartFailures \cup Faults
    /\ err = ""
    /\ ioFailed = FALSE
    /\ keyWrites = 0
    /\ atStart = [pool |-> EmptyMap, dists |-> EmptyMap, signingKey |-> "absent"]
    /\ pathCall = NoPathCall
    /\ pathResult = NoPathResult
    /\ IdleServe
    /\ run = "first"
    /\ pc = "start"
    /\ next = 1
    /\ ri = 1
    /\ ci = 1
    /\ archsLeft = {}
    /\ packagesForReleaseComponent = EmptyMap
    /\ archsForReleaseComponent = EmptyMap
    /\ pkgPoolPaths = EmptyMap
    /\ architectures = <<>>
    /\ release = NoRelease
    /\ pool = EmptyMap
    /\ dists = EmptyMap
    /\ signingKey = "absent"
    /\ copies = NoCopies
    /\ provenance = EmptyMap
    /\ firstComponent = EmptyMap
    /\ written = {}
    /\ hashed = {}
    /\ signed = {}
    /\ firstRun = [dists |-> EmptyMap, pool |-> EmptyMap]

\* No build runs: the state of a specification that studies one call.
IdleBuild ==
    /\ rev = "main.go"
    /\ conf = <<>>
    /\ env = NormalEnv
    /\ err = ""
    /\ ioFailed = FALSE
    /\ keyWrites = 0
    /\ atStart = [pool |-> EmptyMap, dists |-> EmptyMap, signingKey |-> "absent"]
    /\ run = "first"
    /\ pc = "idle"
    /\ next = 1
    /\ ri = 1
    /\ ci = 1
    /\ archsLeft = {}
    /\ packagesForReleaseComponent = EmptyMap
    /\ archsForReleaseComponent = EmptyMap
    /\ pkgPoolPaths = EmptyMap
    /\ architectures = <<>>
    /\ release = NoRelease
    /\ pool = EmptyMap
    /\ dists = EmptyMap
    /\ signingKey = "absent"
    /\ copies = NoCopies
    /\ provenance = EmptyMap
    /\ firstComponent = EmptyMap
    /\ written = {}
    /\ hashed = {}
    /\ signed = {}
    /\ firstRun = [dists |-> EmptyMap, pool |-> EmptyMap]

buildVars ==
    << rev, conf, run, pc, next, ri, ci, archsLeft, packagesForReleaseComponent,
       archsForReleaseComponent, pkgPoolPaths, architectures, release, pool,
       dists, signingKey, copies, provenance, firstComponent, written, hashed,
       signed, firstRun, env, err, ioFailed, keyWrites, atStart >>

\* The decoded packages poolPathForPackage is called with: a Source that is
\* absent, bare, annotated with a version, blank, or only an annotation.
PathNames == {foo, libfoo, bar, lib}

PathSources ==
    { <<>>, foo, libfoo, bar, lib,
      foo \o <<" ", "(">> \o v1_0 \o <<")">>,
      libfoo \o <<" ", "(">> \o v1_2 \o <<")">>,
      bar \o <<"(">> \o v1_0 \o <<")">>,
      <<" ">>,
      <<"(">> \o v1_0 \o <<")">> }

PathCalls ==
    { [componentName |-> c, pkg |-> Control(n, v, a, s, <<>>)] :
        c \in {"main", "extra"}, n \in PathNames, v \in {v1_0, v1_2},
        a \in {"amd64", "arm64"}, s \in PathSources }

\* One call of poolPathForPackage: the path it returns, or the run-time
\* panic of a slice expression that is out of range.
CallPoolPath ==
    /\ pathResult.state = "none"
    /\ pathResult' =
          IF poolPathPanics(pathCall.pkg)
          THEN [state |-> "panicked", path |-> <<>>]
          ELSE [state |-> "returned",
                path |-> poolPathForPackage(pathCall.componentName, pathCall.pkg)]
    /\ UNCHANGED << buildVars, pathCall, serveVars >>

PathInit ==
    /\ IdleBuild
    /\ IdleServe
    /\ pathCall \in PathCalls
    /\ pathResult = NoPathResult

PathNext == CallPoolPath

PathSpec == PathInit /\ [][PathNext]_vars

(***************************************************************************)
(* The serve command: appcontext.Context, the errgroup, ServeWithContext   *)
(* and the handlers of the two servers.                                    *)
(***************************************************************************)

\* Bounds of the serve model: the termination signals sent to the process
\* and the calls of appcontext.Context.
MaxSignals == 4
MaxContextCalls == 2

\* const exitLimit = 3
exitLimit == 3

\* context.WithTimeout(context.Background(), 3*time.Second)
ShutdownSeconds == 3

\* http.StatusMovedPermanently
StatusMovedPermanently == 301

\* http.ErrServerClosed
ErrServerClosed == "http: Server closed"

\* strings.HasSuffix.
HasSuffix(s, suffix) ==
    Len(s) >= Len(suffix) /\ SubSeq(s, Len(s) - Len(suffix) + 1, Len(s)) = suffix

\* The URL paths of the modelled requests.
ascSuffix == <<".", "a", "s", "c">>

acmePrefix ==
    <<"/", ".", "w", "e", "l", "l", "-", "k", "n", "o", "w", "n", "/",
      "a", "c", "m", "e", "-", "c", "h", "a", "l", "l", "e", "n", "g", "e", "/">>

keyPath == <<"/", "k">> \o ascSuffix

RequestPaths ==
    { keyPath,                              \* /k.asc
      <<"/", "a", ".", "d", "e", "b">>,     \* /a.deb
      <<"/">>,
      <<"/", "k", ".", "A", "S", "C">>,     \* /k.ASC
      keyPath \o <<"/">>,                   \* /k.asc/
      acmePrefix \o <<"t">>,                \* an ACME challenge
      acmePrefix \o <<"t">> \o ascSuffix }  \* an ACME challenge that ends in .asc

Requests ==
    { [host |-> "repo.example", path |-> p, query |-> q] :
        p \in RequestPaths, q \in {<<>>, <<"?", "x">>} }

\* r.RequestURI: the request target as sent, path and query.
RequestURI(r) == r.path \o r.query

\* mux: http.FileServer(http.Dir(repoDir)) for every path; the status
\* depends on the directory and is left open (0).
mux(r) == [handler |-> "FileServer", status |-> 0, location |-> NoLocation]

\* http.Redirect(w, r, "https://"+r.Host+r.RequestURI, 301)
Redirect(r) ==
    [handler |-> "Redirect", status |-> StatusMovedPermanently,
     location |-> [scheme |-> "https", host |-> r.host, uri |-> RequestURI(r)]]

\* A fallback that serves the signing key over plain HTTP.
fallbackHandlerServesAll(r) == mux(r)

\* The handler given to autoTLSManager.HTTPHandler.
fallbackHandler(r) == IF HasSuffix(r.path, ascSuffix) THEN Redirect(r) ELSE mux(r)

\* autocert.Manager.HTTPHandler(fallback): the manager answers the ACME
\* http-01 challenges itself and hands every other request to the fallback.
HTTPHandler(r) ==
    IF HasPrefix(r.path, acmePrefix)
    THEN [handler |-> "autocert", status |-> 0, location |-> NoLocation]
    ELSE fallbackHandler(r)

\* The handler of the plain-HTTP server and of the HTTPS server.
httpHandler(f, r) == IF f.tls THEN HTTPHandler(r) ELSE mux(r)

httpsHandler(r) == mux(r)

\* The command lines serve is started with.
ServeFlags ==
    { [tls |-> FALSE, domain |-> "", email |-> ""],
      [tls |-> TRUE, domain |-> "", email |-> "a@repo.example"],
      [tls |-> TRUE, domain |-> "repo.example", email |-> ""],
      [tls |-> TRUE, domain |-> "repo.example", email |-> "a@repo.example"] }

Running == exit = NoExit

\* appcontext.Context: the first call creates the context, registers the
\* channel with signal.Notify and starts the handler goroutine (sync.Once);
\* every call returns the cached context.
Context ==
    /\ contextCalls' = contextCalls + 1
    /\ IF appContextCache = 0
       THEN appContextCache' = 1 /\ notifies' = notifies + 1
       ELSE UNCHANGED << appContextCache, notifies >>
    /\ returnedCtx' = returnedCtx \cup {appContextCache'}

\* A call of appcontext.Context from anywhere else in the process.
CallContext ==
    /\ Running
    /\ servePc # "idle"
    /\ contextCalls < MaxContextCalls
    /\ Context
    /\ UNCHANGED << flags, servePc, serveErr, exit, appCtxDone, signals, sent, retries,
                    groupCtx, groupErr, srv, exchange >>
    /\ UNCHANGED << buildVars, pathCall, pathResult >>

\* The outcomes of the two net.Listen calls.
ListenOutcomes(f) == IF f.tls THEN {"ok", "http fails", "https fails"} ELSE {"ok", "http fails"}

\* g.Go(ServeWithContext): the goroutine that serves and the goroutine
\* that waits for the context.
StartedServer == [IdleServer EXCEPT !.pc = "serving", !.watcher = "waiting"]

\* The Action of the serve command up to g.Wait().
StartServe ==
    /\ Running
    /\ servePc = "start"
    /\ IF flags.tls /\ flags.domain = ""
       THEN /\ servePc' = "returned"
            /\ serveErr' = "'domain' is required when enabling TLS"
            /\ UNCHANGED << appContextCache, notifies, contextCalls, returnedCtx, groupCtx, srv >>
       ELSE IF flags.tls /\ flags.email = ""
       THEN /\ servePc' = "returned"
            /\ serveErr' = "'email' is required when enabling TLS"
            /\ UNCHANGED << appContextCache, notifies, contextCalls, returnedCtx, groupCtx, srv >>
       ELSE /\ Context
            /\ groupCtx' = IF appCtxDone THEN "cancelled" ELSE "active"
            /\ \E listen \in ListenOutcomes(flags) :
                  CASE listen = "http fails" ->
                         /\ servePc' = "returned"
                         /\ serveErr' = "failed to listen on http port"
                         /\ srv' = srv
                    [] listen = "https fails" ->
                         /\ servePc' = "returned"
                         /\ serveErr' = "failed to listen on https port"
                         /\ srv' = [srv EXCEPT !["http"] = StartedServer]
                    [] listen = "ok" ->
                         /\ servePc' = "wait"
                         /\ serveErr' = ""
                         /\ srv' = [s \in Servers |->
                                      IF s = "http" \/ flags.tls THEN StartedServer ELSE srv[s]]
    /\ UNCHANGED << flags, exit, appCtxDone, signals, sent, retries, groupErr, exchange >>
    /\ UNCHANGED << buildVars, pathCall, pathResult >>

\* A termination signal reaches the process while the handler is
\* registered: signal.Notify queues it in the channel.
SendSignal ==
    /\ Running
    /\ notifies > 0
    /\ sent < MaxSignals
    /\ sent' = sent + 1
    /\ signals' = signals + 1
    /\ UNCHANGED << flags, servePc, serveErr, exit, appContextCache, appCtxDone, notifies,
                    contextCalls, returnedCtx, retries, groupCtx, groupErr, srv, exchange >>
    /\ UNCHANGED << buildVars, pathCall, pathResult >>

\* An exit after one signal less than the limit.
ShouldExitEarly(n) == n + 1 >= exitLimit

\* if retries >= exitLimit
ShouldExit(n) == n >= exitLimit

\* One iteration of the handler goroutine: <-signals, cancel(), retries++,
\* os.Exit(1) at the limit.  Cancelling a context cancels those derived
\* from it.
ReceiveSignal ==
    /\ Running
    /\ signals > 0
    /\ signals' = signals - 1
    /\ appCtxDone' = TRUE
    /\ groupCtx' = IF groupCtx = "none" THEN "none" ELSE "cancelled"
    /\ retries' = retries + 1
    /\ exit' = IF ShouldExit(retries') THEN [by |-> "appcontext", status |-> 1] ELSE exit
    /\ UNCHANGED << flags, servePc, serveErr, appContextCache, notifies, contextCalls,
                    returnedCtx, sent, groupErr, srv, exchange >>
    /\ UNCHANGED << buildVars, pathCall, pathResult >>

\* ServeWithContext, the goroutine: <-ctx.Done(), then srv.Shutdown with a
\* context that expires after three seconds.
Shutdown(s) ==
    /\ Running
    /\ srv[s].watcher = "waiting"
    /\ groupCtx = "cancelled"
    /\ srv' = [srv EXCEPT ![s].watcher = "shutdown", ![s].shutdown = TRUE,
                          ![s].deadline = ShutdownSeconds]
    /\ UNCHANGED << flags, servePc, serveErr, exit, appContextCache, appCtxDone, notifies,
                    contextCalls, returnedCtx, signals, sent, retries, groupCtx, groupErr,
                    exchange >>
    /\ UNCHANGED << buildVars, pathCall, pathResult >>

\* srv.Shutdown returns, in time or at its deadline; its error is logged.
ShutdownReturns(s) ==
    /\ Running
    /\ srv[s].watcher = "shutdown"
    /\ srv' = [srv EXCEPT ![s].watcher = "done"]
    /\ UNCHANGED << flags, servePc, serveErr, exit, appContextCache, appCtxDone, notifies,
                    contextCalls, returnedCtx, signals, sent, retries, groupCtx, groupErr,
                    exchange >>
    /\ UNCHANGED << buildVars, pathCall, pathResult >>

\* A ServeWithContext that returns whatever Serve returned.
ServeResultRaw(outcome) == outcome

\* err != nil && !errors.Is(err, http.ErrServerClosed)
ServeResult(outcome) == IF outcome # "" /\ outcome # ErrServerClosed THEN outcome ELSE ""

\* srv.Serve / srv.ServeTLS returns http.ErrServerClosed once Shutdown has
\* been called, and ServeWithContext returns.
ServeClosed(s) ==
    /\ Running
    /\ srv[s].pc = "serving"
    /\ srv[s].shutdown
    /\ srv' = [srv EXCEPT ![s].pc = "returned", ![s].outcome = ErrServerClosed,
                          ![s].result = ServeResult(ErrServerClosed)]
    /\ UNCHANGED << flags, servePc, serveErr, exit, appContextCache, appCtxDone, notifies,
                    contextCalls, returnedCtx, signals, sent, retries, groupCtx, groupErr,
                    exchange >>
    /\ UNCHANGED << buildVars, pathCall, pathResult >>

\* srv.Serve returns another error (the listener fails), and
\* ServeWithContext returns.
ServeFails(s) ==
    /\ Running
    /\ srv[s].pc = "serving"
    /\ ~srv[s].shutdown
    /\ srv' = [srv EXCEPT ![s].pc = "returned", ![s].outcome = s \o ": accept failed",
                          ![s].result = ServeResult(s \o ": accept failed")]
    /\ UNCHANGED << flags, servePc, serveErr, exit, appContextCache, appCtxDone, notifies,
                    contextCalls, returnedCtx, signals, sent, retries, groupCtx, groupErr,
                    exchange >>
    /\ UNCHANGED << buildVars, pathCall, pathResult >>

\* An errgroup that keeps the error of the goroutine that returned last.
LastError(current, result) == IF result # "" THEN result ELSE current

\* g.errOnce.Do: the first non-nil error is kept.
FirstError(current, result) == IF current = "" THEN result ELSE current

\* The goroutine started by g.Go ends: a non-nil error is recorded once
\* and cancels the group's context.
GroupDone(s) ==
    /\ Running
    /\ srv[s].pc = "returned"
    /\ srv' = [srv EXCEPT ![s].pc = "joined"]
    /\ groupErr' = FirstError(groupErr, srv[s].result)
    /\ groupCtx' = IF srv[s].result # "" THEN "cancelled" ELSE groupCtx
    /\ UNCHANGED << flags, servePc, serveErr, exit, appContextCache, appCtxDone, notifies,
                    contextCalls, returnedCtx, signals, sent, retries, exchange >>
    /\ UNCHANGED << buildVars, pathCall, pathResult >>

\* g.Wait() returns when every goroutine has ended, with the first error.
Wait ==
    /\ Running
    /\ servePc = "wait"
    /\ \A s \in Servers : srv[s].pc \in {"off", "joined"}
    /\ servePc' = "returned"
    /\ serveErr' = groupErr
    /\ groupCtx' = "cancelled"
    /\ UNCHANGED << flags, exit, appContextCache, appCtxDone, notifies, contextCalls,
                    returnedCtx, signals, sent, retries, groupErr, srv, exchange >>
    /\ UNCHANGED << buildVars, pathCall, pathResult >>

\* main: app.Run has returned; an error ends the process with os.Exit(1).
ExitMain ==
    /\ Running
    /\ servePc = "returned"
    /\ exit' = [by |-> "main", status |-> IF serveErr = "" THEN 0 ELSE 1]
    /\ UNCHANGED << flags, servePc, serveErr, appContextCache, appCtxDone, notifies,
                    contextCalls, returnedCtx, signals, sent, retries, groupCtx, groupErr,
                    srv, exchange >>
    /\ UNCHANGED << buildVars, pathCall, pathResult >>

\* A server that is serving answers a request.
HandleRequest(s) ==
    /\ Running
    /\ srv[s].pc = "serving"
    /\ ~srv[s].shutdown
    /\ exchange = NoExchange
    /\ \E r \in Requests :
          exchange' = [server |-> s, request |-> r,
                       response |-> IF s = "http" THEN httpHandler(flags, r)
                                    ELSE httpsHandler(r)]
    /\ UNCHANGED << flags, servePc, serveErr, exit, appContextCache, appCtxDone, notifies,
                    contextCalls, returnedCtx, signals, sent, retries, groupCtx, groupErr,
                    srv >>
    /\ UNCHANGED << buildVars, pathCall, pathResult >>

ServeInit ==
    /\ IdleBuild
    /\ pathCall = NoPathCall
    /\ pathResult = NoPathResult
    /\ flags \in ServeFlags
    /\ servePc = "start"
    /\ serveErr = ""
    /\ exit = NoExit
    /\ appContextCache = 0
    /\ appCtxDone = FALSE
    /\ notifies = 0
    /\ contextCalls = 0
    /\ returnedCtx = {}
    /\ signals = 0
    /\ sent = 0
    /\ retries = 0
    /\ groupCtx = "none"
    /\ groupErr = ""
    /\ srv = [s \in Servers |-> IdleServer]
    /\ exchange = NoExchange

\* The life of the serve command: start, signals, shutdown, return.
LifecycleNext ==
    \/ StartServe
    \/ SendSignal
    \/ ReceiveSignal
    \/ \E s \in Servers : Shutdown(s)
    \/ \E s \in Servers : ShutdownReturns(s)
    \/ \E s \in Servers : ServeClosed(s)
    \/ \E s \in Servers : ServeFails(s)
    \/ \E s \in Servers : GroupDone(s)
    \/ Wait
    \/ ExitMain

\* The same with the requests the servers answer and further calls of
\* appcontext.Context.
ServeNext ==
    \/ LifecycleNext
    \/ CallContext
    \/ \E s \in Servers : HandleRequest(s)

ServeSpec == ServeInit /\ [][ServeNext]_vars

\* The Go scheduler runs every goroutine that can take a step, and main
\* goes on when g.Wait() can return; the environment owes nothing.
ServeFairness ==
    /\ WF_vars(StartServe)
    /\ WF_vars(ReceiveSignal)
    /\ \A s \in Servers :
          /\ WF_vars(Shutdown(s))
          /\ WF_vars(ShutdownReturns(s))
          /\ WF_vars(ServeClosed(s))
          /\ WF_vars(GroupDone(s))
    /\ WF_vars(Wait)
    /\ WF_vars(ExitMain)

ServeFairSpec == ServeInit /\ [][LifecycleNext]_vars /\ ServeFairness

Next ==
    \/ LoadInputs
    \/ PlacePackage
    \/ EndPoolPhase
    \/ DeletePoolFile
    \/ \E arch \in {"amd64", "arm64"} : WriteIndices(arch)
    \/ NextComponent
    \/ HashRelease
    \/ CreateInRelease
    \/ SignRelease
    \/ WriteSigningKey
    \/ \E freshDir \in BOOLEAN : Rebuild(freshDir)

Spec == Init /\ [][Next]_vars

(***************************************************************************)
(* Properties.                                                             *)
(***************************************************************************)

\* The file name (last segment) of a dists path.
BaseName(path) == path[Len(path)]

\* The Packages and Packages.xz files this build has written.
WrittenPackagesFiles == {p \in written : dists[p].kind = "Packages"}

\* The index files (Packages, Packages.xz, Contents) this build has written.
WrittenIndexFiles == {p \in written : dists[p].kind \in {"Packages", "Contents"}}

\* The bucket entry a stanza was marshalled from.
FromStanza(st) ==
    [Name |-> st.Package, Version |-> st.Version, Architecture |-> st.Architecture,
     Source |-> st.Source, Section |-> st.Section, Filename |-> st.Filename,
     Size |-> st.Size, SHA256 |-> st.SHA256]

\* The bucket an index file under dists/<release>/<component>/ is built from.
BucketOf(path) ==
    MapGet(packagesForReleaseComponent, ReleaseComponentKey(path[2], path[3]), <<>>)

\* C1: every Package entry created for a package path carries the pool path
\* computed with the component of the first (release, component) pair that
\* processed the path, in every bucket and in every Packages index written.
C1_SharedFilename ==
    /\ \A key \in DOMAIN packagesForReleaseComponent :
          \A i \in 1..Len(packagesForReleaseComponent[key]) :
              packagesForReleaseComponent[key][i].Filename =
                  poolPathForPackage(firstComponent[provenance[key][i]],
                                     GetMetadata(ReadSource(provenance[key][i])))
    /\ \A p \in WrittenPackagesFiles :
          LET bucket == BucketOf(p)
              sources == provenance[ReleaseComponentKey(p[2], p[3])]
          IN  \A k \in 1..Len(dists[p].payload) :
                  LET stanza == dists[p].payload[k]
                      listed == FromStanza(stanza)
                  IN  \E i \in 1..Len(bucket) :
                          /\ bucket[i] = listed
                          /\ stanza.Filename =
                                poolPathForPackage(firstComponent[sources[i]],
                                                   GetMetadata(ReadSource(sources[i])))

\* C1 witness: the build is complete and a package path was processed a
\* second time under a component other than the one that fixed its pool path,
\* so that a Packages index of that component lists it.
C1_Witness ==
    /\ pc = "done"
    /\ \E n \in 1..Len(Refs(conf)) :
          LET ref == Refs(conf)[n]
              componentName == conf[ref.ri].Components[ref.ci].Name
          IN  /\ firstComponent[ref.pkgPath] # componentName
              /\ \E p \in WrittenPackagesFiles :
                    /\ p[2] = conf[ref.ri].Name
                    /\ p[3] = componentName
                    /\ Len(dists[p].payload) > 0

\* C2 (as stated): no source file, identified by its absolute path, is
\* copied into the pool more than once during a build.
C2_CopiedOncePerFile == \A a \in AbsPaths : copies[a] <= 1

\* The manifest entry of a path under the release directory, if any.
HasEntry(manifest, dir, path) ==
    \E e \in manifest : e.Filename = RelPath(dir, path)

\* C3 (as stated): when InRelease is signed, the manifest lists exactly the
\* files under dists/<release>/ (the InRelease being produced aside), each
\* with the digest and size the file has on disk at that moment.
C3_ManifestMatchesDisk ==
    pc = "sign" =>
        LET dir == ReleaseDir(conf[ri].Name)
        IN  /\ \A e \in release.SHA256 :
                  /\ dir \o e.Filename \in DOMAIN dists
                  /\ e.Hash = Sha256(dists[dir \o e.Filename])
                  /\ e.Size = FileSize(dists[dir \o e.Filename])
            /\ \A q \in DOMAIN dists :
                  (IsUnder(q, dir) /\ q # InReleasePath(conf[ri].Name))
                      => HasEntry(release.SHA256, dir, q)

\* C4 (as stated): no InRelease holds a manifest entry for InRelease itself.
C4_NoSelfEntry ==
    \A p \in DOMAIN dists :
        dists[p].kind = "InRelease"
            => \A e \in dists[p].payload.SHA256 : e.Filename # <<"InRelease">>

\* The three index files of a (release, component, architecture).
IndexFilesOf(releaseName, componentName, arch) ==
    { PackagesPath(releaseName, componentName, arch, "Packages"),
      PackagesPath(releaseName, componentName, arch, "Packages.xz"),
      ContentsPath(releaseName, componentName, arch) }

\* The index files the second loop writes for release entry i.
IndexFilesOfRelease(i) ==
    UNION { IndexFilesOf(conf[i].Name, conf[i].Components[j].Name, arch) :
              <<j, arch>> \in
                { x \in (1..Len(conf[i].Components)) \X {"amd64", "arm64"} :
                    x[2] \in MapGet(archsForReleaseComponent,
                                ReleaseComponentKey(conf[i].Name, conf[i].Components[x[1]].Name),
                                {}) } }

C6_Idempotent ==
    (pc = "done" /\ run = "second") =>
        /\ \A p \in WrittenPackagesFiles :
              p \in DOMAIN firstRun.dists /\ firstRun.dists[p] = dists[p]
        /\ \A i \in 1..Len(conf) :
              dists[InReleasePath(conf[i].Name)].payload.SHA256 =
                  firstRun.dists[InReleasePath(conf[i].Name)].payload.SHA256

\* Release entry i of the configuration lists no package path.
EntryHasNoPackages(i) == \A n \in 1..Len(Refs(conf)) : Refs(conf)[n].ri # i

\* No release entry of that name lists a package path.
NameHasNoPackages(releaseName) ==
    \A n \in 1..Len(Refs(conf)) : conf[Refs(conf)[n].ri].Name # releaseName

\* C7 (as stated): a successful build writes a Packages and a Contents
\* index for a release whose components reference no package.
C7_EmptyReleaseHasIndices ==
    pc = "done" =>
        \A i \in 1..Len(conf) :
            EntryHasNoPackages(i) =>
                /\ \E p \in WrittenIndexFiles : p[2] = conf[i].Name /\ dists[p].kind = "Packages"
                /\ \E p \in WrittenIndexFiles : p[2] = conf[i].Name /\ dists[p].kind = "Contents"

\* C7 (amended): for a release name none of whose entries references a
\* package, a successful build writes a signed InRelease and writes no
\* Packages and no Contents index under dists/<release>/.
C7_EmptyReleaseSignedOnly ==
    pc = "done" =>
        \A i \in 1..Len(conf) :
            NameHasNoPackages(conf[i].Name) =>
                /\ InReleasePath(conf[i].Name) \in written
                /\ dists[InReleasePath(conf[i].Name)].kind = "InRelease"
                /\ dists[InReleasePath(conf[i].Name)].payload.signedBy = PrivateKey
                /\ \A p \in WrittenIndexFiles : p[2] # conf[i].Name

\* C7 witness: a build has succeeded for a configuration with a release
\* that has a component and references no package.
C7_Witness ==
    /\ pc = "done"
    /\ \E i \in 1..Len(conf) :
          /\ NameHasNoPackages(conf[i].Name)
          /\ Len(conf[i].Components) > 0
          /\ InReleasePath(conf[i].Name) \in written

\* The architectures observed among the packages of the components of
\* release entry i.
ObservedArchitectures(i) ==
    UNION { MapGet(archsForReleaseComponent,
                   ReleaseComponentKey(conf[i].Name, conf[i].Components[j].Name), {}) :
              j \in 1..Len(conf[i].Components) }

\* C8 (as stated): the Architectures field of the manifest being signed
\* holds exactly the architectures observed for the release's components.
C8_ArchitecturesObserved ==
    pc \in {"create", "sign"} =>
        Range(release.Architectures) = ObservedArchitectures(ri)

NoDuplicates(seq) == \A i, j \in 1..Len(seq) : seq[i] = seq[j] => i = j

\* C9 (as stated): no token occurs twice in the Architectures list or in
\* the Components list of the manifest being signed.
C9_NoDuplicateTokens ==
    pc \in {"create", "sign"} =>
        NoDuplicates(release.Architectures) /\ NoDuplicates(release.Components)

Count(seq, x) == Cardinality({i \in 1..Len(seq) : seq[i] = x})

\* The architecture a binary-<arch> directory is named after.
ArchOfIndex(path) == CHOOSE a \in {"amd64", "arm64"} : path[4] = "binary-" \o a

\* The packages an index lists, read back from its stanzas.
Listed(path) == [k \in 1..Len(dists[path].payload) |-> FromStanza(dists[path].payload[k])]

\* C10: a Packages index lists exactly the packages of its bucket that have
\* the indexed architecture, each as often as the bucket holds it, in
\* non-decreasing order of name, Debian version and architecture.
C10_PackagesIndex ==
    \A p \in WrittenPackagesFiles :
        LET listed == Listed(p)
            bucket == BucketOf(p)
            arch == ArchOfIndex(p)
        IN  /\ \A x \in Range(listed) \cup Range(bucket) :
                  Count(listed, x) =
                      IF x.Architecture = arch THEN Count(bucket, x) ELSE 0
            /\ \A a, b \in 1..Len(listed) :
                  a < b => PackageCompare(listed[a], listed[b]) <= 0

\* C10 witness: an index lists versions 1.0-1, 1.0-2, 1.1-1, 2:1.0-1 of
\* one name and architecture in that order although the configuration
\* named 2:1.0-1 first and 1.0-1 last.
C10_Witness ==
    \E p \in WrittenPackagesFiles :
        /\ [k \in 1..Len(Listed(p)) |-> Listed(p)[k].Version] =
              <<v1_0_1, v1_0_2, v1_1_1, v2e1_0_1>>
        /\ BucketOf(p)[1].Version = v2e1_0_1
        /\ BucketOf(p)[4].Version = v1_0_1

\* The name S of a Source field "S (V)": the text before the parenthesis,
\* without the white space around it.
BareSource(source) ==
    IF IndexOfChar(source, "(") >= 0
    THEN TrimSpace(SubSeq(source, 1, IndexOfChar(source, "(")))
    ELSE TrimSpace(source)

\* A Source field that carries a trailing version annotation after a name.
IsAnnotated(source) ==
    /\ IndexOfChar(source, "(") >= 1
    /\ BareSource(source) # <<>>
    /\ source[Len(source)] = ")"

\* The source name of a package: its Source, or its Name without one.
ExpectedSource(pkg) == IF pkg.Source = <<>> THEN pkg.Name ELSE BareSource(pkg.Source)

\* The first character, or the first four of a name that starts with lib.
ExpectedPrefix(source) ==
    IF HasPrefix(source, lib)
    THEN SubSeq(source, 1, IF Len(source) < 4 THEN Len(source) ELSE 4)
    ELSE SubSeq(source, 1, IF Len(source) < 1 THEN Len(source) ELSE 1)

ExpectedPoolPath(componentName, pkg) ==
    <<"p", "o", "o", "l", "/">> \o Chars(componentName) \o <<"/">>
        \o ExpectedPrefix(ExpectedSource(pkg)) \o <<"/">> \o ExpectedSource(pkg) \o <<"/">>
        \o pkg.Name \o <<"_">> \o pkg.Version \o <<"_">> \o Chars(pkg.Architecture)
        \o <<".", "d", "e", "b">>

\* C11 (as stated): every call of poolPathForPackage returns
\* pool/<component>/<prefix>/<source>/<name>_<version>_<arch>.deb, with
\* <source> the Source (or the Name without one) and <prefix> its first
\* character, or its first four when it starts with lib.
C11_PoolPathLayout ==
    pathResult.state # "none" =>
        /\ pathResult.state = "returned"
        /\ pathResult.path = ExpectedPoolPath(pathCall.componentName, pathCall.pkg)

\* C12 (as stated): the pool path of a package whose Source is "S (V)" is
\* the pool path of the same package with the bare Source S.
C12_AnnotationStripped ==
    (pathResult.state # "none" /\ IsAnnotated(pathCall.pkg.Source)) =>
        /\ pathResult.state = "returned"
        /\ pathResult.path =
              poolPathForPackage(pathCall.componentName,
                  [pathCall.pkg EXCEPT !.Source = BareSource(pathCall.pkg.Source)])

\* C13 (as stated): at the end of a successful build every stanza of every
\* Packages index names a pool file that exists and has the stanza's Size
\* and SHA256.
C13_StanzaMatchesPool ==
    pc = "done" =>
        \A p \in WrittenPackagesFiles :
            \A k \in 1..Len(dists[p].payload) :
                LET st == dists[p].payload[k]
                IN  /\ st.Filename \in DOMAIN pool
                    /\ DebImage(pool[st.Filename]).size = st.Size
                    /\ Sha256(pool[st.Filename]) = st.SHA256

\* This build has read no package and has left the output directory as it
\* found it.
NothingTouched ==
    /\ next = 1
    /\ copies = NoCopies
    /\ written = {}
    /\ keyWrites = 0
    /\ pool = atStart.pool
    /\ dists = atStart.dists
    /\ signingKey = atStart.signingKey

\* C14: without the private key file the build stops with the error that
\* names 'aptify init-keys', having read no package and touched nothing
\* under the output directory.
C14_MissingKeyIsFatal ==
    ~env.keyExists =>
        /\ pc \in {"start", "failed"}
        /\ pc = "failed" =>
              err = "private key not found; run 'aptify init-keys' to generate one"
        /\ NothingTouched

\* C14 witness: a build over the tree of an earlier build has failed for
\* want of the key.
C14_Witness ==
    /\ pc = "failed"
    /\ ~env.keyExists
    /\ run = "second"
    /\ atStart.dists # EmptyMap

\* C15: a document of another apiVersion or kind makes FromYAML, and so the
\* build, fail before a file is copied to the pool or written.
C15_UnsupportedDocumentIsFatal ==
    (env.keyExists /\ (env.apiVersion # "aptify/v1alpha1" \/ env.kind # "Repository")) =>
        /\ pc \in {"start", "failed"}
        /\ pc = "failed" => err = "failed to read config"
        /\ NothingTouched

\* C15 witness: a build over the tree of an earlier build has failed on a
\* document of another kind.
C15_Witness ==
    /\ pc = "failed"
    /\ env.keyExists
    /\ env.kind = "Other"
    /\ run = "second"
    /\ atStart.pool # EmptyMap

\* C16 (as stated): when writeContentsIndice fails on a pool file, the
\* build has left no Contents file for the (release, component,
\* architecture) it was indexing.
C16_NoContentsFileOnFailure ==
    (pc = "failed" /\ err = "failed to write contents file") =>
        \A arch \in archsLeft :
            ContentsPath(conf[ri].Name, conf[ri].Components[ci].Name, arch) \notin written

\* The package is no valid .deb archive for GetMetadata: no debian-binary
\* member, one that does not read "2.0\n", or no control archive.
IsMalformed(pkgPath) ==
    LET image == DebImage(ReadSource(pkgPath))
    IN  \/ ~image.hasDebianBinary
        \/ image.debianBinary # "2.0\n"
        \/ ~image.hasControl

\* The package has a valid debian-binary and control archive and no data
\* archive.
LacksData(pkgPath) == ~IsMalformed(pkgPath) /\ ~DebImage(ReadSource(pkgPath)).hasData

\* C17: a build whose configuration lists a package without a valid
\* debian-binary member or without a control archive never succeeds and
\* writes no Packages, Contents or InRelease file; it fails with the error
\* of GetMetadata.
C17_MalformedPackageIsFatal ==
    (LET refs == Refs(conf) IN \E n \in 1..Len(refs) : IsMalformed(refs[n].pkgPath)) =>
        /\ pc \in {"start", "pool", "failed"}
        /\ pc = "failed" => err = "failed to get package metadata"
        /\ written = {}
        /\ dists = atStart.dists

\* C17 witness: the build has failed on a malformed package after it had
\* placed a valid package of another release in the pool.
C17_Witness ==
    /\ pc = "failed"
    /\ Len(conf) = 2
    /\ conf[1].Name # conf[2].Name
    /\ \E n \in 1..Len(Refs(conf)) : IsMalformed(Refs(conf)[n].pkgPath)
    /\ pool # EmptyMap

\* C18 (as stated): a build whose configuration lists a package without a
\* data archive never succeeds, and no InRelease is written for a release
\* that contains the package.
C18_MissingDataIsFatal ==
    \A n \in 1..Len(Refs(conf)) :
        LacksData(Refs(conf)[n].pkgPath) =>
            /\ pc # "done"
            /\ InReleasePath(conf[Refs(conf)[n].ri].Name) \notin written

\* C19 (as stated): a build in which an I/O step failed does not return
\* successfully.
C19_NoFailureSwallowed == pc = "done" => ~ioFailed

\* C20: signing_key.asc is written at most once per build, and only when
\* the InRelease of every configured release has been written; it then
\* holds the public half of the key that signed each of them; a build that
\* has failed has not written it.
C20_SigningKeyLast ==
    /\ keyWrites <= 1
    /\ pc = "done" => keyWrites = 1
    /\ pc = "failed" => keyWrites = 0 /\ signingKey = atStart.signingKey
    /\ keyWrites = 1 =>
          /\ signed = 1..Len(conf)
          /\ \A i \in 1..Len(conf) :
                /\ InReleasePath(conf[i].Name) \in written
                /\ dists[InReleasePath(conf[i].Name)].kind = "InRelease"
                /\ signingKey.public = dists[InReleasePath(conf[i].Name)].payload.signedBy

\* C20 witness: a build of two releases over the tree of an earlier build
\* has written the key.
C20_Witness ==
    /\ pc = "done"
    /\ run = "second"
    /\ keyWrites = 1
    /\ Len(conf) = 2
    /\ atStart.dists # EmptyMap

\* The files under dists/<releaseName>/ with their contents.
Subtree(tree, releaseName) ==
    [p \in {q \in DOMAIN tree : IsUnder(q, ReleaseDir(releaseName))} |-> tree[p]]

\* C21 (as stated): once a build has written the InRelease of a release, no
\* step of that build creates, modifies or removes a file under
\* dists/<release>/.
C21_NoWriteAfterInRelease ==
    [][\A i \in signed :
          run' = run =>
              Subtree(dists', conf[i].Name) = Subtree(dists, conf[i].Name)]_vars

\* What a reader that picks the decoder from the file name gets out of a
\* file: the payload when the bytes are a complete stream of that format.
Decoded(path) ==
    IF dists[path].kind # "truncated" /\ dists[path].codec = CodecFor(BaseName(path))
    THEN [ok |-> TRUE, bytes |-> dists[path].payload]
    ELSE [ok |-> FALSE, bytes |-> <<>>]

\* The Packages.xz next to a Packages file.
XzOf(path) == SubSeq(path, 1, Len(path) - 1) \o <<"Packages.xz">>

WrittenContentsFiles == {p \in written : dists[p].kind = "Contents"}

\* The architecture a Contents-<arch>.gz file is named after.
ArchOfContents(path) ==
    CHOOSE a \in {"amd64", "arm64"} : path[4] = "Contents-" \o a \o ".gz"

\* The filtered and sorted package set of a Contents index.
SetOfContents(path) == SortPackages(FilterPackages(BucketOf(path), ArchOfContents(path)))

\* The paths a package installs: the non-directory entries of the data
\* archive of the file the package entry was made from (the entry carries
\* the digest of those bytes).
InstalledPaths(pkg) == Range(GetPackageContents(pkg.SHA256.sha256))

\* C23 (as stated): a Contents index has one line per distinct path
\* installed by a package of its filtered set, in strictly increasing
\* order of path, and the line of a path lists the qualified name of every
\* package of the set that installs the path, once per such package.
C23_ContentsIndex ==
    \A p \in WrittenContentsFiles :
        LET lines == dists[p].payload
            set == SetOfContents(p)
            paths == UNION {InstalledPaths(set[i]) : i \in 1..Len(set)}
        IN  /\ {lines[k].path : k \in 1..Len(lines)} = paths
            /\ \A a, b \in 1..Len(lines) :
                  a < b => stringsCompare(lines[a].path, lines[b].path) < 0
            /\ \A k \in 1..Len(lines) :
                  \A i \in 1..Len(set) :
                      Count(lines[k].packages, QualifiedPackageName(set[i])) =
                          Cardinality({j \in 1..Len(set) :
                              /\ QualifiedPackageName(set[j]) = QualifiedPackageName(set[i])
                              /\ lines[k].path \in InstalledPaths(set[j])})
            /\ \A k \in 1..Len(lines) :
                  \A name \in Range(lines[k].packages) :
                      \E i \in 1..Len(set) : name = QualifiedPackageName(set[i])

\* The regular-file entries of the data archive of a .deb.
RegularPaths(bytes) ==
    {e.path : e \in {x \in Range(DebImage(bytes).data) : x.type = "regular"}}

\* C24 (as stated): every path GetPackageContents returned for a pool file,
\* as listed in the Contents indices written from those lists, is a
\* regular-file entry of the data archive of a pool file.
C24_OnlyRegularFiles ==
    \A p \in WrittenContentsFiles :
        \A k \in 1..Len(dists[p].payload) :
            \E f \in DOMAIN pool : dists[p].payload[k].path \in RegularPaths(pool[f])

\* The identity of the package a stanza describes.
Identity(st) == <<st.Package, st.Version, st.Architecture>>

\* C25 (as stated): no Packages index holds two stanzas with the same
\* (Name, Version, Architecture).
C25_NoDuplicateStanza ==
    \A p \in WrittenPackagesFiles :
        \A a, b \in 1..Len(dists[p].payload) :
            Identity(dists[p].payload[a]) = Identity(dists[p].payload[b]) => a = b

\* C26 (as stated): every call of poolPathForPackage returns a path; none
\* ends in a run-time failure.
C26_PoolPathReturns == pathResult.state # "panicked"

\* The request is an ACME http-01 challenge.
IsAcmeChallenge(r) == HasPrefix(r.path, acmePrefix)

\* The redirect to the same host and URI over https.
IsHttpsRedirect(r, response) ==
    /\ response.handler = "Redirect"
    /\ response.status = 301
    /\ response.location = [scheme |-> "https", host |-> r.host, uri |-> r.path \o r.query]

\* C27 (as stated): with TLS enabled, a plain-HTTP request whose path ends
\* in ".asc" and is no ACME challenge is answered with the redirect, every
\* other plain-HTTP request by the file server, and every HTTPS request by
\* the file server.
C27_AscRedirected ==
    (flags.tls /\ exchange.server # "none") =>
        IF /\ exchange.server = "http"
           /\ HasSuffix(exchange.request.path, ascSuffix)
           /\ ~IsAcmeChallenge(exchange.request)
        THEN IsHttpsRedirect(exchange.request, exchange.response)
        ELSE exchange.response.handler = "FileServer"

\* C27 (amended): with TLS enabled, a plain-HTTP request that is an ACME
\* challenge is answered by the certificate manager; any other plain-HTTP
\* request is answered with the redirect when its path ends in ".asc" and
\* by the file server otherwise; every HTTPS request is answered by the
\* file server.
C27_AscRedirectedAcmeAside ==
    (flags.tls /\ exchange.server # "none") =>
        IF exchange.server = "https"
        THEN exchange.response.handler = "FileServer"
        ELSE IF IsAcmeChallenge(exchange.request)
        THEN exchange.response.handler = "autocert"
        ELSE IF HasSuffix(exchange.request.path, ascSuffix)
        THEN IsHttpsRedirect(exchange.request, exchange.response)
        ELSE exchange.response.handler = "FileServer"

\* C27 witness: with TLS enabled the plain-HTTP server has answered a
\* request for /k.asc?x.
C27_Witness ==
    /\ flags.tls
    /\ exchange.server = "http"
    /\ exchange.request.path = keyPath
    /\ exchange.request.query # <<>>
    /\ exchange.response.handler = "Redirect"

\* ServeWithContext has returned for server s.
HasReturned(s) == srv[s].pc \in {"returned", "joined"}

\* C28: Shutdown is called only when the context is cancelled, and with a
\* deadline of three seconds; ServeWithContext returns nil when Serve ended
\* with the server-closed condition and the error of Serve otherwise; once
\* the context of a serving server is cancelled, Shutdown is called and
\* ServeWithContext returns (unless the process is ended first).
C28_ShutdownOnCancel ==
    /\ [](\A s \in Servers :
            srv[s].shutdown => groupCtx = "cancelled" /\ srv[s].deadline = 3)
    /\ [](\A s \in Servers :
            HasReturned(s) =>
                /\ srv[s].outcome # ""
                /\ srv[s].outcome = ErrServerClosed => srv[s].result = "" /\ srv[s].shutdown
                /\ srv[s].outcome # ErrServerClosed => srv[s].result = srv[s].outcome)
    /\ \A s \in Servers :
          (srv[s].pc = "serving" /\ groupCtx = "cancelled")
              ~> (~Running \/ (srv[s].shutdown /\ HasReturned(s)))

\* C28 witness: a server was shut down after a signal, Serve ended with
\* the server-closed condition and ServeWithContext returned nil.
C28_Witness ==
    /\ retries = 1
    /\ \E s \in Servers :
          /\ srv[s].pc = "returned"
          /\ srv[s].outcome = ErrServerClosed
          /\ srv[s].result = ""
          /\ srv[s].watcher = "done"

\* Both servers were started.
BothServers == \A s \in Servers : srv[s].pc # "off"

\* No Serve call has ended with an error other than server-closed.
NoServeError == \A s \in Servers : srv[s].outcome \in {"", ErrServerClosed}

\* Every server has stopped, and by Shutdown unless its Serve failed.
AllStopped ==
    \A s \in Servers :
        /\ srv[s].pc = "joined"
        /\ srv[s].outcome = ErrServerClosed => srv[s].shutdown

\* C29: with both servers running, the first error a server returns is
\* kept and cancels the shared context; the command then returns that
\* error with both servers stopped; after a termination signal both servers
\* stop and the command returns, with no error unless a Serve call failed
\* (in both cases unless the third signal ends the process first).
C29_FirstErrorStopsBoth ==
    /\ [](groupErr # "" => groupCtx = "cancelled")
    /\ [][groupErr # "" => groupErr' = groupErr]_vars
    /\ []((BothServers /\ servePc = "returned") =>
            /\ serveErr = groupErr
            /\ AllStopped
            /\ NoServeError => serveErr = "")
    /\ (BothServers /\ \E s \in Servers : srv[s].result # "")
          ~> (exit.by = "appcontext" \/ (servePc = "returned" /\ serveErr # ""))
    /\ (BothServers /\ appCtxDone)
          ~> (exit.by = "appcontext" \/ servePc = "returned")

\* C29 witness: both servers failed, and the command returned the error
\* of the HTTPS server, which was recorded first.
C29_Witness ==
    /\ BothServers
    /\ servePc = "returned"
    /\ serveErr = "https: accept failed"
    /\ srv["http"].result = "http: accept failed"

\* C30: signal.Notify is called at most once and every call of
\* appcontext.Context returns the one cached context; the context is
\* cancelled exactly when a signal has been received; the handler ends the
\* process exactly when it has received the third signal, with status 1.
C30_ThirdSignalExits ==
    /\ notifies <= 1
    /\ contextCalls > 0 => notifies = 1 /\ returnedCtx = {appContextCache}
    /\ Cardinality(returnedCtx) <= 1
    /\ appCtxDone <=> retries >= 1
    /\ exit.by = "appcontext" <=> retries >= 3
    /\ exit.by = "appcontext" => exit.status = 1
    /\ retries <= 3

\* C30 witness: appcontext.Context was called twice and the third signal
\* has ended the process.
C30_Witness ==
    /\ contextCalls = 2
    /\ retries = 3
    /\ exit = [by |-> "appcontext", status |-> 1]

====
